---- MODULE Spec2Model ----
(***************************************************************************)
(* A model of the compaction job engine (db/compaction/compaction_job.cc): *)
(* Prepare, Run with one worker per sub-compaction, Install and Cleanup.   *)
(* User keys are the integers 1..NumKeys under the integer order, a        *)
(* record's value is identified by its sequence number, and every record   *)
(* occupies one unit of file size.                                         *)
(***************************************************************************)
EXTENDS Integers, Sequences, FiniteSets, TLC

\* ------------------------------------------------------------------ bounds
NumKeys == 3
MaxSeq == 3
MaxRangeDels == 1
MaxSnapshots == 1
MaxFileEntries == 2
MaxSubcompactions == 2
MaxApproxSize == 2
MaxPlannedSubcompactions == 3
NumBlobFiles == 2
MaxGarbage == 1

\* ------------------------------------------------------- keys and records
UserKeys == 1..NumKeys
Seqs == 1..MaxSeq

\* A null Slice* (an unbounded slice start or end).
nullptr == 0

\* The most bytes of the next level that overlap an output file.
MaxOverlappingBytes == 2

\* The largest sequence number: above the sequence of every record.
kMaxSequenceNumber == MaxSeq + 1

\* A point record has uend = ukey; a range tombstone covers [ukey, uend).
Rec(u, q, k, e) == [ukey |-> u, seq |-> q, kind |-> k, uend |-> e]

IsPoint(r) == r.kind \in {"Put", "Delete"}

\* The value types in the order the internal-key comparator gives them.
TypeRank(k) ==
  CASE k = "Delete" -> 0
    [] k = "Put" -> 1
    [] k = "RangeDelete" -> 2
    [] OTHER -> 3

\* The internal-key order: user key ascending, then sequence descending,
\* then kind descending.
InternalKeyLess(a, b) ==
  \/ a.ukey < b.ukey
  \/ a.ukey = b.ukey /\ a.seq > b.seq
  \/ a.ukey = b.ukey /\ a.seq = b.seq /\ TypeRank(a.kind) > TypeRank(b.kind)

\* A set of records as the sequence a merging iterator yields.
RECURSIVE SortRecs(_)
SortRecs(S) ==
  IF S = {} THEN <<>>
  ELSE LET m == CHOOSE x \in S : \A y \in S \ {x} : InternalKeyLess(x, y)
       IN <<m>> \o SortRecs(S \ {m})

Range(s) == {s[i] : i \in 1..Len(s)}

\* The snapshot bucket of sequence q: the smallest snapshot >= q, or
\* kMaxSequenceNumber for the bucket above all snapshots.
Bucket(q, snaps) ==
  IF \E s \in snaps : s >= q
  THEN CHOOSE s \in snaps : s >= q /\ \A t \in snaps : t >= q => s <= t
  ELSE kMaxSequenceNumber

\* ------------------------------------------------------------------ files
\* A file: its number, its point entries in the order they were added, the
\* range tombstones it holds and the user-key span [lo, hi) they are
\* clipped to in this file, and whether it was finished (file_size > 0).
KeyInf == NumKeys + 2

File(n, es, rds, lo, hi, fin) ==
  [num |-> n, entries |-> es, range_dels |-> rds, lo |-> lo, hi |-> hi,
   finished |-> fin]

\* The span of tombstone t inside file f.
FragLo(f, t) == IF t.ukey > f.lo THEN t.ukey ELSE f.lo
FragHi(f, t) == IF t.uend < f.hi THEN t.uend ELSE f.hi

\* Get(u) under snapshot s over a set of files: the value of the newest
\* visible Put, or 0 (not found) when there is none, the newest visible
\* record is a Delete, or a newer visible range tombstone covers u.
Visible(files, u, s) ==
  LET pts == {r \in UNION {Range(f.entries) : f \in files} :
                r.ukey = u /\ r.seq <= s}
      covered(q) == \E f \in files : \E t \in f.range_dels :
                      /\ FragLo(f, t) <= u /\ u < FragHi(f, t)
                      /\ t.seq <= s /\ t.seq > q
  IN IF pts = {} THEN 0
     ELSE LET p == CHOOSE r \in pts : \A r2 \in pts : r2.seq <= r.seq
          IN IF p.kind = "Delete" \/ covered(p.seq) THEN 0 ELSE p.seq

\* The smallest and largest user key of a file's metadata: they cover its
\* point entries and the spans of its range tombstones.
FileKeys(f) ==
  {r.ukey : r \in Range(f.entries)}
    \cup {FragLo(f, t) : t \in f.range_dels}
    \cup {FragHi(f, t) : t \in f.range_dels}

SmallestUserKey(f) ==
  LET keys == FileKeys(f) IN CHOOSE k \in keys : \A j \in keys : k <= j

LargestUserKey(f) ==
  LET keys == FileKeys(f) IN CHOOSE k \in keys : \A j \in keys : j <= k

\* ------------------------------------------------- the compaction's inputs
\* The input files are level-0 files 1 and 2: file 1 holds the older
\* sequences, file 2 the newer ones; a file without records does not exist.
InputFile(n, S) ==
  File(n, SortRecs({r \in S : IsPoint(r)}), {r \in S : ~IsPoint(r)},
       0, KeyInf, TRUE)

InputFiles(R) ==
  LET older == {r \in R : r.seq <= MaxSeq \div 2}
      newer == R \ older
  IN {InputFile(1, S) : S \in {older} \ {{}}}
       \cup {InputFile(2, S) : S \in {newer} \ {{}}}

AbsentShape == [ukey |-> 0, kind |-> "None", uend |-> 0]
PointShapes ==
  {[ukey |-> u, kind |-> k, uend |-> u] : u \in UserKeys, k \in {"Put", "Delete"}}
RangeShapes ==
  {[ukey |-> a, kind |-> "RangeDelete", uend |-> b] :
     a \in UserKeys, b \in 2..(NumKeys + 1)}

\* Every set of records with distinct sequence numbers, at most
\* MaxRangeDels of them range tombstones.
RecordSets ==
  LET shapes == {AbsentShape} \cup PointShapes
                  \cup {s \in RangeShapes : s.ukey < s.uend}
      recs(f) == {Rec(f[q].ukey, q, f[q].kind, f[q].uend) :
                    q \in {x \in Seqs : f[x].kind # "None"}}
  IN {recs(f) : f \in {g \in [Seqs -> shapes] :
        /\ \E q \in Seqs : g[q].kind # "None"
        /\ Cardinality({q \in Seqs : g[q].kind = "RangeDelete"}) <= MaxRangeDels}}

Descriptor(R, bm, mofs, msub) ==
  [inputs |-> InputFiles(R), bottommost_level |-> bm,
   max_output_file_size |-> mofs, max_subcompactions |-> msub,
   output_level |-> 1, filter_ignores_snapshots |-> TRUE,
   input_blob_flows |-> <<>>, approx_sizes |-> <<>>,
   enable_blob_files |-> FALSE, blob_output_directory |-> "none",
   listeners |-> FALSE, is_manual_compaction |-> FALSE,
   supports_per_key_placement |-> FALSE,
   compaction_reason |-> "kLevelL0FilesNum",
   compaction_pri |-> "kByCompensatedSize", start_level |-> 0,
   timestamp_size |-> 0,
   vstorage |-> [num_non_empty_levels |-> 1, overlapping_bytes |-> 0,
                 file_scores |-> <<>>, next_compaction_index |-> 0]]

\* ------------------------------------------------------------- blob files
BlobFiles == 1..NumBlobFiles

\* What a blob-garbage meter has measured for one blob file: the number and
\* the bytes of the blobs of the file that the inputs reference and the
\* outputs no longer do.
BlobInOutFlow(b, count, bytes) ==
  [blob_file_number |-> b, count |-> count, bytes |-> bytes]

HasGarbage(flow) == flow.count > 0

\* The flows a meter can hold: at most one per blob file, without garbage or
\* with garbage of one or two bytes per blob.
FlowMaps ==
  LET flows == {BlobInOutFlow(b, n, n * k) :
                  b \in BlobFiles, n \in 0..MaxGarbage, k \in 1..2}
  IN {S \in SUBSET flows :
        \A x \in S, y \in S : x.blob_file_number = y.blob_file_number => x = y}

\* Whether the inputs of the compaction reference blob files.
DoesInputReferenceBlobFiles(c) == c.input_blob_flows # <<>>

InputRecords(c) == UNION {Range(f.entries) : f \in c.inputs}
InputRangeDels(c) == UNION {f.range_dels : f \in c.inputs}

\* ------------------------------------------------------ boundary planner
RECURSIVE SortKeys(_)
SortKeys(S) ==
  IF S = {} THEN <<>>
  ELSE LET m == CHOOSE x \in S : \A y \in S : x <= y
       IN <<m>> \o SortKeys(S \ {m})

\* The candidate boundaries: both end keys of every level-0 input file,
\* sorted and without duplicates.
CandidateBounds(c) ==
  SortKeys({SmallestUserKey(f) : f \in c.inputs}
             \cup {LargestUserKey(f) : f \in c.inputs})

RECURSIVE SumSizes(_, _)
SumSizes(sizes, n) == IF n = 0 THEN 0 ELSE sizes[n] + SumSizes(sizes, n - 1)

Min(a, b) == IF a <= b THEN a ELSE b

\* A variant of MaxOutputFiles that sets no limit when there is no estimate.
MaxOutputFilesNoEstimate(sum, mofs) ==
  IF sum = 0 THEN NumKeys + 1 ELSE (5 * sum + 4 * mofs - 1) \div (4 * mofs)

\* ceil(sum / (4/5) / max file size)
MaxOutputFiles(sum, mofs) == (5 * sum + 4 * mofs - 1) \div (4 * mofs)

\* A variant that makes the limit of every range a boundary.
SweepEveryRange(bounds, sizes, n, total, sum, i, acc, left) ==
  [k \in 1..n |-> bounds[k + 1]]

\* The greedy sweep over ranges i..n-1: the range's limit becomes a boundary
\* when the accumulated size reaches the mean sum / total.
RECURSIVE Sweep(_, _, _, _, _, _, _, _)
Sweep(bounds, sizes, n, total, sum, i, acc, left) ==
  IF i > n - 1 THEN <<>>
  ELSE LET acc2 == acc + sizes[i]
       IN IF left = 1
          THEN Sweep(bounds, sizes, n, total, sum, i + 1, acc2, left)
          ELSE IF acc2 * total >= sum
               THEN <<bounds[i + 1]>>
                      \o Sweep(bounds, sizes, n, total, sum, i + 1, 0, left - 1)
               ELSE Sweep(bounds, sizes, n, total, sum, i + 1, acc2, left)

\* The number of ranges between consecutive candidate bounds.
NumRanges(c) == Len(CandidateBounds(c)) - 1

\* A variant of Subcompactions that leaves out max_subcompactions.
SubcompactionsUncapped(c, sizes) ==
  LET n == Len(sizes)
  IN Min(n, MaxOutputFiles(SumSizes(sizes, n), c.max_output_file_size))

\* The planned number of sub-compactions: the smallest of the number of
\* ranges, max_subcompactions and the estimated number of output files.
Subcompactions(c, sizes) ==
  LET n == Len(sizes)
  IN Min(n, Min(c.max_subcompactions,
                MaxOutputFiles(SumSizes(sizes, n), c.max_output_file_size)))

\* What the planner does with the db mutex around one size query.
SizeQueryEventsNoRelock == <<"Unlock", "ApproximateSize">>

\* The size of one range is queried with the db mutex released.
SizeQueryEvents == <<"Unlock", "ApproximateSize", "Lock">>

\* The mutex events of the planner: one size query per range.
RECURSIVE PlannerEvents(_)
PlannerEvents(n) ==
  IF n <= 0 THEN <<>> ELSE SizeQueryEvents \o PlannerEvents(n - 1)

\* The holder of the mutex after a thread that started as holder h ran the
\* events: Unlock by a non-holder and Lock by the holder are errors.
RECURSIVE HolderAfter(_, _)
HolderAfter(h, events) ==
  IF events = <<>> THEN h
  ELSE LET e == Head(events)
           h2 == IF e = "Unlock"
                 THEN (IF h = "caller" THEN "none" ELSE "error")
                 ELSE IF e = "Lock"
                 THEN (IF h = "none" THEN "caller" ELSE "error")
                 ELSE h
       IN HolderAfter(h2, Tail(events))

\* sizes[i] is the approximate size of the range bounds[i]..bounds[i+1].
GenSubcompactionBoundaries(c, sizes) ==
  LET bounds == CandidateBounds(c)
      n == Len(sizes)
      sum == SumSizes(sizes, n)
      subcompactions == Subcompactions(c, sizes)
  IN IF subcompactions > 1
     THEN Sweep(bounds, sizes, n, subcompactions, sum, 1, 0, subcompactions)
     ELSE <<>>

\* No sub-compactions are formed for a comparator with user timestamps.
ShouldFormSubcompactions(c) ==
  c.timestamp_size = 0 /\ c.max_subcompactions > 1 /\ c.output_level > 0

\* A variant of Boundaries that plans for every compaction.
BoundariesOfAnyCompaction(c, sizes) == GenSubcompactionBoundaries(c, sizes)

\* The boundaries of Prepare: planned when the compaction forms
\* sub-compactions, none otherwise.
Boundaries(c, sizes) ==
  IF ShouldFormSubcompactions(c)
  THEN GenSubcompactionBoundaries(c, sizes)
  ELSE <<>>

\* What ApproximateSize can return for the ranges of the compaction: the
\* estimates of the input version when the job comes with them, else any
\* sizes.
SizeEstimates(c) ==
  IF c.approx_sizes # <<>> THEN {c.approx_sizes}
  ELSE [1..NumRanges(c) -> 0..MaxApproxSize]

\* ------------------------------------------------------------------ state
VARIABLES
  compaction,                  \* the compaction descriptor (immutable)
  existing_snapshots_,         \* the job's snapshot list, as a set
  lsm,                         \* the files of the current version
  next_file_number,            \* the version manager's file-number counter
  shutting_down,               \* the process-wide shutdown signal
  manual_compaction_canceled,  \* the per-job cancel signal
  cfd_dropped,                 \* whether the column family was dropped
  job_pc,                      \* where the job is in its lifecycle
  boundaries_,                 \* the slice boundaries chosen by Prepare
  bottommost_level_,
  sub_compact_states,          \* compact_->sub_compact_states
  compact_status,              \* compact_->status
  io_status_,
  edit,                        \* the version edit handed to LogAndApply
  log_and_apply_calls,         \* how often LogAndApply was called
  install_status,              \* what Install returned
  finish_order,                \* history: the workers in the order they ended
  db_mutex_,                   \* who holds the database mutex
  compact_,                    \* the CompactionState pointer of the job
  compaction_stats_,           \* the statistics of the job
  history                      \* history: what the steps of the job did

vars ==
  <<compaction, existing_snapshots_, lsm, next_file_number, shutting_down,
    manual_compaction_canceled, cfd_dropped, job_pc, boundaries_,
    bottommost_level_, sub_compact_states, compact_status, io_status_, edit,
    log_and_apply_calls, install_status, finish_order, db_mutex_, compact_,
    compaction_stats_, history>>

descriptor_vars == <<compaction, existing_snapshots_>>
signal_vars == <<shutting_down, manual_compaction_canceled, cfd_dropped>>
version_vars == <<lsm, edit, log_and_apply_calls, install_status>>
state_vars == <<db_mutex_, compact_>>

\* Nothing has happened yet.
NoHistory ==
  [mutex_events |-> <<>>, subcompactions |-> 0, worker_locks |-> {},
   cleanup_calls |-> 0, install_mutex |-> "none", writes |-> {},
   finish_calls |-> {}, run_events |-> <<>>, install_events |-> <<>>,
   dir_syncs |-> <<>>,
   verify |-> [ran |-> FALSE, worker_status |-> "OK", sync |-> "skipped",
               errors |-> <<>>, claims |-> <<>>]]

NoEdit ==
  [deleted |-> {}, added |-> {}, blob_garbage |-> <<>>, compact_cursors |-> {}]

\* The statistics of a job that has not run.
NoStats == [num_output_files |-> 0, num_output_records |-> 0]

InputNumbers == {f.num : f \in compaction.inputs}

MaxOf(S) == CHOOSE x \in S : \A y \in S : y <= x

InitJob(c, snaps) ==
  /\ compaction = c
  /\ existing_snapshots_ = snaps
  /\ lsm = c.inputs
  /\ next_file_number = MaxOf({f.num : f \in c.inputs}) + 1
  /\ finish_order = <<>>
  /\ db_mutex_ = "caller"
  /\ compact_ = 1        \* the address of the CompactionState of the job
  /\ compaction_stats_ = NoStats
  /\ history = NoHistory
  /\ shutting_down = FALSE
  /\ manual_compaction_canceled = FALSE
  /\ cfd_dropped = FALSE
  /\ job_pc = "Created"
  /\ boundaries_ = <<>>
  /\ bottommost_level_ = FALSE
  /\ sub_compact_states = <<>>
  /\ compact_status = "OK"
  /\ io_status_ = "OK"
  /\ edit = NoEdit
  /\ log_and_apply_calls = 0
  /\ install_status = "OK"

\* Every compaction over the bounded universe of records.
InitData ==
  \E R \in RecordSets, bm \in BOOLEAN, mofs \in 1..MaxFileEntries,
     snaps \in {S \in SUBSET Seqs : Cardinality(S) <= MaxSnapshots} :
    InitJob(Descriptor(R, bm, mofs, MaxSubcompactions), snaps)

\* ---------------------------------------------------------------- Prepare
SubcompactionState(start, end) ==
  [start |-> start, end |-> end, status |-> "OK", io_status |-> "OK",
   outputs |-> <<>>, builder |-> FALSE, pending_close |-> FALSE,
   pc |-> "idle", pos |-> 1, loop_status |-> "OK", input_status |-> "OK",
   c_iter_status |-> "OK",
   faulted |-> FALSE, runs |-> 0, threads |-> {}, end_flags |-> {},
   c_iter |-> <<>>, locked |-> FALSE, finish_calls |-> {},
   took_file_number |-> FALSE, blob_garbage_meter |-> <<>>,
   blob_file_additions |-> FALSE, table_file_events |-> <<>>,
   notify_on_subcompaction_completion |-> FALSE, listener_events |-> <<>>,
   bg_errors |-> {}, finish_returns |-> {},
   write_hints |-> {}, write_hint_log |-> <<>>, crashed |-> FALSE]

\* A variant of SubcompactionsFor that leaves the start of every
\* sub-compaction unbounded.
SubcompactionsForUnboundedStart(bs) ==
  [i \in 1..(Len(bs) + 1) |->
     SubcompactionState(nullptr,
                        IF i = Len(bs) + 1 THEN nullptr ELSE bs[i])]

\* One sub-compaction per gap between boundaries.
SubcompactionsFor(bs) ==
  [i \in 1..(Len(bs) + 1) |->
     SubcompactionState(IF i = 1 THEN nullptr ELSE bs[i - 1],
                        IF i = Len(bs) + 1 THEN nullptr ELSE bs[i])]

Prepare ==
  /\ job_pc = "Created"
  /\ \E sizes \in SizeEstimates(compaction) :
       LET plans == ShouldFormSubcompactions(compaction)
           bs == Boundaries(compaction, sizes)
           events == IF plans THEN PlannerEvents(Len(sizes)) ELSE <<>>
       IN /\ boundaries_' = bs
          /\ sub_compact_states' = SubcompactionsFor(bs)
          /\ db_mutex_' = HolderAfter(db_mutex_, events)
          /\ history' = [history EXCEPT
               !.mutex_events = events,
               !.subcompactions =
                 IF plans THEN Subcompactions(compaction, sizes) ELSE 0]
  /\ bottommost_level_' = compaction.bottommost_level
  /\ job_pc' = "Prepared"
  /\ UNCHANGED <<descriptor_vars, compaction_stats_, finish_order, signal_vars, version_vars,
                 compact_, next_file_number, compact_status, io_status_>>

\* ------------------------------------------------- a worker's input stream
\* Variants of the seek keys that carry sequence number 0, and so sort after
\* the records of user key bound.
start_ikey_seq0(start) == Rec(start, 0, "Seek", start)
end_ikey_seq0(end) == Rec(end, 0, "Seek", end)

\* The seek keys of the slice bounds: (bound, kMaxSequenceNumber,
\* kValueTypeForSeek) sorts before every record of user key bound.
start_ikey(start) == Rec(start, kMaxSequenceNumber, "Seek", start)
end_ikey(end) == Rec(end, kMaxSequenceNumber, "Seek", end)

\* The clipping iterator: the records r with start_ikey <= r < end_ikey.
InClip(r, start, end) ==
  /\ start = nullptr \/ ~InternalKeyLess(r, start_ikey(start))
  /\ end = nullptr \/ InternalKeyLess(r, end_ikey(end))

\* A variant of ClippedInput in which the clipping iterator also yields its
\* lower bound as a record.
ClippedInputWithBound(w) ==
  {r \in InputRecords(compaction) : InClip(r, w.start, w.end)}
    \cup {start_ikey(b) : b \in {w.start} \ {nullptr}}

\* The merged input of the level-0 input files, clipped to the slice.
ClippedInput(w) ==
  {r \in InputRecords(compaction) : InClip(r, w.start, w.end)}

\* The compaction iterator's per-key rules over point records P with the
\* range tombstones T: the newest record of a user key in a snapshot bucket
\* wins, a record under a newer tombstone of its bucket is dropped, and at
\* the bottommost level a Delete in the bucket above all snapshots is
\* dropped.
Survives(r, P, T, snaps, bottommost) ==
  /\ ~\E r2 \in P : /\ r2.ukey = r.ukey /\ r2.seq > r.seq
                    /\ Bucket(r2.seq, snaps) = Bucket(r.seq, snaps)
  /\ ~\E t \in T : /\ t.ukey <= r.ukey /\ r.ukey < t.uend /\ t.seq > r.seq
                   /\ Bucket(t.seq, snaps) = Bucket(r.seq, snaps)
  /\ ~(bottommost /\ r.kind = "Delete"
         /\ Bucket(r.seq, snaps) = kMaxSequenceNumber)

CompactionIterator(P, T, snaps, bottommost) ==
  SortRecs({r \in P : Survives(r, P, T, snaps, bottommost)})

\* A variant of CIter that is handed every sequence number as a snapshot.
CIterEverySnapshot(w) ==
  CompactionIterator(ClippedInput(w), InputRangeDels(compaction),
                     Seqs, bottommost_level_)

\* The records c_iter yields for sub-compaction state w.
CIter(w) ==
  CompactionIterator(ClippedInput(w), InputRangeDels(compaction),
                     existing_snapshots_, bottommost_level_)

\* c_iter checks the signals whenever it moves.
SignalStatus ==
  IF shutting_down THEN "ShutdownInProgress"
  ELSE IF manual_compaction_canceled THEN "ManualCompactionPaused"
  ELSE "OK"

Valid(w) ==
  w.c_iter_status = "OK" /\ w.input_status = "OK" /\ w.pos <= Len(w.c_iter)

\* ----------------------------------------------------------- output files
StartBound(w) == IF w.start = nullptr THEN 0 ELSE w.start
EndBound(w) == IF w.end = nullptr THEN KeyInf ELSE w.end

EarliestSnapshot ==
  IF existing_snapshots_ = {} THEN kMaxSequenceNumber
  ELSE CHOOSE s \in existing_snapshots_ : \A t \in existing_snapshots_ : s <= t

HasRangeDel == InputRangeDels(compaction) # {}

\* The range tombstones that go into file f, the last output of w, when the
\* next file of the slice starts at key nk (<<>>: there is none): those not
\* obsolete at the bottommost level whose span meets the file's span.
AddRangeDels(w, f, nk) ==
  LET lo == IF Len(w.outputs) = 1 THEN StartBound(w)
            ELSE IF Len(f.entries) > 0 THEN f.entries[1].ukey ELSE 0
      hi == IF nk # <<>> THEN Min(nk[1].ukey, EndBound(w)) ELSE EndBound(w)
      g == [f EXCEPT !.lo = lo, !.hi = hi]
  IN [g EXCEPT !.range_dels =
        {t \in InputRangeDels(compaction) :
           /\ ~(bottommost_level_ /\ t.seq < EarliestSnapshot)
           /\ FragLo(g, t) < FragHi(g, t)}]

\* A variant of NewFileNumber that does not advance the counter.
NewFileNumberKept(next) == [file_number |-> next, next |-> next]

\* versions_->NewFileNumber() on the counter next: the counter is read and
\* advanced in one atomic step.
NewFileNumber(next) == [file_number |-> next, next |-> next + 1]

\* GetTableFileName: the file number printed with at least six decimal
\* digits (the directory and the extension are the same for every file).
GetTableFileName(file_number) ==
  [k \in 1..6 |-> (file_number \div 10 ^ (6 - k)) % 10]

\* The file name "(nil)" that is reported for a file that was not kept.
NilFileName == <<>>

\* The notifications to the listeners about a table file.
TableFileCreationStarted(fname) ==
  [event |-> "started", fname |-> fname, status |-> "OK"]

TableFileCreationFinished(fname, status) ==
  [event |-> "finished", fname |-> fname, status |-> status]

\* A variant of IsEmptyOutput that keeps every file.
IsEmptyOutputNever(s, current_entries, num_range_deletions) == FALSE

\* Whether the finished file is dropped instead of kept in the outputs.
IsEmptyOutput(s, current_entries, num_range_deletions) ==
  s = "OK" /\ current_entries = 0 /\ num_range_deletions = 0

\* A variant that writes the range tombstones whatever the status.
WritesRangeDelsAlways(input_status) == TRUE

\* A variant that writes the range tombstones after an I/O error too.
WritesRangeDelsOnIOError(input_status) == input_status \in {"OK", "IOError"}

\* The range tombstones are written only when the status so far is OK.
WritesRangeDels(input_status) == input_status = "OK"

\* A variant that reports the space limit without the db mutex.
LocksDbMutexNever(space_reached) == FALSE

\* When the file manager reports that the space limit is reached, the
\* background error is set under the db mutex.
LocksDbMutex(space_reached) == space_reached

\* A call of the error handler of the database.
BGError(status, reason) == [status |-> status, reason |-> reason]

\* A variant of SetBGError that reports every failure of the finish step.
SetBGErrorOnAnyFailure(space_reached, s) ==
  IF s # "OK" THEN {BGError(s, "kCompaction")} ELSE {}

\* db_error_handler_->SetBGError(s, BackgroundErrorReason::kCompaction),
\* called when the file manager says that the space limit is reached.
SetBGError(space_reached, s) ==
  IF space_reached THEN {BGError(s, "kCompaction")} ELSE {}

\* What a call of FinishCompactionOutputFile was given and returned, and
\* whether the file manager reported that the space limit is reached.
FinishReturn(input_status, space_reached, returned) ==
  [input_status |-> input_status, space_reached |-> space_reached,
   returned |-> returned]

\* write_hint_, as Prepare sets it from the output level; every use of it
\* comes after Prepare. The hint encodes the level: hint - 3 is the level.
WriteHint(c) == c.output_level + 3

\* The guard of the write-hint planning: the level of the file is neither
\* level 0 nor the last non-empty level.
PlansWriteHint(c) ==
  LET file_output_level == WriteHint(c) - 3
  IN /\ file_output_level > 0
     /\ file_output_level < c.vstorage.num_non_empty_levels - 1

\* overlapping_bytes * 1024 / file size + 50000
FileScore(overlapping_bytes, file_size) ==
  (overlapping_bytes * 1024) \div file_size + 50000

\* std::lower_bound over the sorted scores: the number of scores below
\* file_score.
LowerBound(file_scores, file_score) ==
  Cardinality({k \in DOMAIN file_scores : file_scores[k] < file_score})

\* max(file_index - cmp_index, 0)
PriorityIndex(v, file_score) ==
  LET file_index == LowerBound(v.file_scores, file_score)
  IN IF file_index - v.next_compaction_index > 0
     THEN file_index - v.next_compaction_index
     ELSE 0

\* Whether the planning of a file of file_size reads file_scores.back() of
\* an empty score list, which has no defined behaviour: the read yields any
\* value, or the process stops at the read.
ReadsBackOfEmpty(c, file_size) ==
  /\ PlansWriteHint(c)
  /\ c.vstorage.overlapping_bytes # 0
  /\ file_size # 0
  /\ c.vstorage.file_scores = <<>>

\* The lines that the planning logs for the file with the number and the
\* builder's file size. lastscore is the last of the scores, and nothing
\* defined when there is no score.
WriteHintLog(c, file_number, file_size) ==
  LET v == c.vstorage
      file_score == FileScore(v.overlapping_bytes, file_size)
  IN IF ~PlansWriteHint(c) THEN <<>>
     ELSE IF v.overlapping_bytes = 0
     THEN <<[line |-> "filepriority", file |-> file_number,
             priority_index |-> 0, file_score |-> 0,
             file_size |-> file_size]>>
     ELSE IF file_size = 0
     THEN <<[line |-> "error", file |-> file_number,
             file_size |-> file_size]>>
     ELSE <<[line |-> "filepriority", file |-> file_number,
             priority_index |-> PriorityIndex(v, file_score),
             file_score |-> file_score, file_size |-> file_size],
            [line |-> "fileidlast", file |-> file_number,
             lastscore |-> IF v.file_scores = <<>> THEN <<>>
                           ELSE <<v.file_scores[Len(v.file_scores)]>>]>>

\* The write-hint planning of FinishCompactionOutputFile for the last
\* output of w: it computes the overlap, the score and the priority index
\* of the file and logs them.
PlanWriteHint(w, c, file_number, file_size) ==
  [w EXCEPT !.write_hint_log = @ \o WriteHintLog(c, file_number, file_size)]

\* FinishCompactionOutputFile on the last output of w. fault: "close_io"
\* (the file's sync and close fails), "space" (the file manager reports the
\* space limit); any other fault leaves it alone. Yields the new state and
\* the status returned; the state records whether the db mutex was taken and
\* the status the function was called with.
\* The rest of FinishCompactionOutputFile for the last output of w, once
\* its range tombstones are written: f1 is the file with them, io_s the
\* status of the file's sync and close.
FinishOutput(w, input_status, fault, f1, io_s) ==
  LET n == Len(w.outputs)
      current_entries == Len(f1.entries)
      s == IF input_status = "OK" THEN io_s ELSE input_status
      f2 == [f1 EXCEPT !.finished = (input_status = "OK")]
      dropped == IsEmptyOutput(s, current_entries, Cardinality(f2.range_dels))
      space_reached == fault = "space" /\ ~dropped
      s2 == IF space_reached THEN "SpaceLimit" ELSE s
  IN [w |-> [PlanWriteHint(w, compaction, f1.num, current_entries) EXCEPT
               !.outputs = IF dropped THEN SubSeq(w.outputs, 1, n - 1)
                           ELSE [w.outputs EXCEPT ![n] = f2],
               !.io_status = IF w.io_status = "OK" THEN io_s ELSE w.io_status,
               !.builder = FALSE,
               !.faulted = w.faulted \/ s2 # input_status,
               !.locked = @ \/ LocksDbMutex(s2 = "SpaceLimit"),
               !.finish_calls = @ \cup {input_status},
               !.bg_errors = @ \cup SetBGError(space_reached, s2),
               !.finish_returns =
                 @ \cup {FinishReturn(input_status, space_reached, s2)},
               !.table_file_events =
                 Append(@, IF dropped
                           THEN TableFileCreationFinished(NilFileName,
                                                          "Aborted")
                           ELSE TableFileCreationFinished(
                                  GetTableFileName(f1.num), s))],
      s |-> s2]

FinishCompactionOutputFile(w, input_status, nk, fault) ==
  IF fault = "crash"
  THEN [w |-> [w EXCEPT !.crashed = TRUE,
                        !.finish_calls = @ \cup {input_status}],
        s |-> "Crashed"]
  ELSE FinishOutput(w, input_status, fault,
                    IF WritesRangeDels(input_status) /\ HasRangeDel
                    THEN AddRangeDels(w, w.outputs[Len(w.outputs)], nk)
                    ELSE w.outputs[Len(w.outputs)],
                    IF fault = "close_io" THEN "IOError" ELSE "OK")

\* OpenCompactionOutputFile with file number fnum. fault: "open_io"
\* (creating the writable file fails), "unique_id" (the unique id of the
\* file cannot be generated).
OpenCompactionOutputFile(w, fnum, fault) ==
  CASE fault = "open_io" ->
         [w |-> [w EXCEPT
                   !.io_status = IF w.io_status = "OK" THEN "IOError"
                                 ELSE w.io_status,
                   !.faulted = TRUE,
                   !.took_file_number = TRUE,
                   !.table_file_events =
                     @ \o <<TableFileCreationStarted(GetTableFileName(fnum)),
                            TableFileCreationFinished(GetTableFileName(fnum),
                                                      "IOError")>>],
          s |-> "IOError"]
    [] fault = "unique_id" ->
         [w |-> [w EXCEPT
                   !.faulted = TRUE,
                   !.took_file_number = TRUE,
                   !.table_file_events =
                     Append(@, TableFileCreationStarted(
                                 GetTableFileName(fnum)))],
          s |-> "NotSupported"]
    [] OTHER ->
         [w |-> [w EXCEPT
                   !.outputs = Append(w.outputs,
                                      File(fnum, <<>>, {}, 0, KeyInf, FALSE)),
                   !.builder = TRUE,
                   !.took_file_number = TRUE,
                   !.write_hints =
                     @ \cup {[file |-> fnum, hint |-> WriteHint(compaction)]},
                   !.table_file_events =
                     Append(@, TableFileCreationStarted(
                                 GetTableFileName(fnum)))],
          s |-> "OK"]

\* ---------------------------------------------------------------- workers
\* The faults the environment can inject into one step of a worker.
WorkerFaults == {"none", "close_io", "space", "open_io", "input_io", "corrupt"}

\* Adding the record to the builder of the last output.
AddToBuilder(outputs, r) ==
  [outputs EXCEPT ![Len(outputs)].entries = Append(@, r)]

\* The output is closed before the next record once it has reached the
\* target file size (never at level 0).
ReachedFileSize(c, f) ==
  c.output_level # 0 /\ Len(f.entries) >= c.max_output_file_size

\* AddToOutput for the record r under c_iter: close the output that is
\* pending close, open an output if there is none, add the record.
AddToOutput(w, r, fnum, fault) ==
  LET c1 == IF w.pending_close /\ w.builder
            THEN FinishCompactionOutputFile(w, w.input_status, <<r>>, fault)
            ELSE [w |-> w, s |-> "OK"]
      w1 == [c1.w EXCEPT !.pending_close = FALSE]
      o == IF c1.s = "OK" /\ ~w1.builder
           THEN OpenCompactionOutputFile(w1, fnum, fault)
           ELSE [w |-> w1, s |-> c1.s]
      opened == c1.s = "OK" /\ ~w1.builder
  IN IF o.s # "OK" THEN [w |-> o.w, s |-> o.s, opened |-> opened]
     ELSE LET outs == AddToBuilder(o.w.outputs, r)
          IN [w |-> [o.w EXCEPT
                       !.outputs = outs,
                       !.pending_close = ReachedFileSize(compaction,
                                                         outs[Len(outs)])],
              s |-> "OK", opened |-> opened]

\* A variant of NextPos that visits the third record before the second.
NextPosOutOfOrder(pos) ==
  CASE pos = 1 -> 3
    [] pos = 3 -> 2
    [] pos = 2 -> 4
    [] OTHER -> pos + 1

\* c_iter->Next(): the iterator moves to the next surviving record, and
\* stops being valid on a signal, an input error or a corrupt record.
NextPos(pos) == pos + 1

CIterNext(w, fault) ==
  [w EXCEPT !.pos = NextPos(w.pos),
            !.input_status = IF fault = "input_io" THEN "IOError" ELSE @,
            !.c_iter_status = IF fault = "corrupt" THEN "Corruption"
                              ELSE SignalStatus,
            !.faulted = @ \/ fault \in {"input_io", "corrupt"}]

\* Whether the fault can happen in the loop step of w.
LoopFaultEnabled(w, fault) ==
  CASE fault \in {"close_io", "space"} -> w.pending_close /\ w.builder
    [] fault = "crash" ->
         /\ w.pending_close /\ w.builder
         /\ ReadsBackOfEmpty(compaction,
                             Len(w.outputs[Len(w.outputs)].entries))
    [] fault \in {"open_io", "unique_id"} -> w.pending_close \/ ~w.builder
    [] OTHER -> TRUE

\* The thread that processes sub-compaction i: Run starts one thread for
\* each sub-compaction after the first and processes the first itself.
\* Thread 0 is the thread that called Run.
ThreadFor(i) == i - 1

\* A write of thread to the variable var (entry idx of it) in a phase of Run
\* where several threads run.
Wrote(phase, var, idx, thread) ==
  [phase |-> phase, var |-> var, idx |-> idx, thread |-> thread]

\* The sub-compaction states that the step of worker i from old to new
\* wrote.
StateWrites(i, old, new) ==
  {Wrote("process", "sub_compact_states", j, ThreadFor(i)) :
     j \in {k \in DOMAIN old : new[k] # old[k]}}

\* The history after worker i made the step from the states old to the
\* states new: what it wrote, whether it took the db mutex, and its calls of
\* FinishCompactionOutputFile with the status they were given.
WorkerHistory(h, i, old, new) ==
  [h EXCEPT
     !.writes = @ \cup StateWrites(i, old, new)
       \cup (IF new[i].took_file_number
              THEN {Wrote("process", "next_file_number", 0, ThreadFor(i))}
              ELSE {})
       \cup (IF new[i].locked
              THEN {Wrote("process", "bg_error", 0, ThreadFor(i))}
              ELSE {}),
     !.worker_locks = @ \cup (IF new[i].locked THEN {i} ELSE {}),
     !.finish_calls =
       @ \cup {[worker |-> i, status |-> s] : s \in new[i].finish_calls}]

\* A variant that accepts every compaction filter.
FilterSupportedAlways(c) == TRUE

\* A compaction filter that does not ignore snapshots is not supported.
FilterSupported(c) == c.filter_ignores_snapshots

\* CreateBlobGarbageMeter for sub-compaction i, when the inputs reference
\* blob files: the meter, with the flows it will have measured over the
\* slice. <<>>: no meter.
CreateBlobGarbageMeter(c, i) ==
  IF DoesInputReferenceBlobFiles(c) THEN <<c.input_blob_flows[i]>> ELSE <<>>

\* NotifyOnSubcompactionBegin: nothing without listeners, during shutdown,
\* or for a manual compaction that is cancelled; else the listeners get
\* OnSubcompactionBegin and the sub-compaction remembers it.
NotifyOnSubcompactionBegin(w) ==
  IF \/ ~compaction.listeners
     \/ shutting_down
     \/ compaction.is_manual_compaction /\ manual_compaction_canceled
  THEN w
  ELSE [w EXCEPT !.notify_on_subcompaction_completion = TRUE,
                 !.listener_events = Append(@, "OnSubcompactionBegin")]

\* A variant that does not look at notify_on_subcompaction_completion.
NotifyOnSubcompactionCompletedUnpaired(w) ==
  IF ~compaction.listeners \/ shutting_down
  THEN w
  ELSE [w EXCEPT !.listener_events = Append(@, "OnSubcompactionCompleted")]

\* NotifyOnSubcompactionCompleted: nothing without listeners, during
\* shutdown, or when OnSubcompactionBegin was not delivered.
NotifyOnSubcompactionCompleted(w) ==
  IF \/ ~compaction.listeners
     \/ shutting_down
     \/ ~w.notify_on_subcompaction_completion
  THEN w
  ELSE [w EXCEPT !.listener_events = Append(@, "OnSubcompactionCompleted")]

\* The worker thread starts: it fails at once when the compaction filter
\* does not ignore snapshots; otherwise it builds its iterators and seeks to
\* the first record of its slice.
ProcessStart(i) ==
  /\ job_pc = "Running"
  /\ sub_compact_states[i].pc = "idle"
  /\ IF ~FilterSupported(compaction)
     THEN /\ sub_compact_states' =
               [sub_compact_states EXCEPT
                  ![i] = [@ EXCEPT !.status = "NotSupported", !.pc = "done",
                                   !.faulted = TRUE, !.runs = @ + 1,
                                   !.threads = @ \cup {ThreadFor(i)}]]
          /\ finish_order' = Append(finish_order, i)
     ELSE /\ sub_compact_states' =
               [sub_compact_states EXCEPT
                  ![i] = [NotifyOnSubcompactionBegin(@) EXCEPT
                                   !.pc = "loop",
                                   !.c_iter = CIter(sub_compact_states[i]),
                                   !.c_iter_status = SignalStatus,
                                   !.blob_garbage_meter =
                                     CreateBlobGarbageMeter(compaction, i),
                                   !.runs = @ + 1,
                                   !.threads = @ \cup {ThreadFor(i)}]]
          /\ UNCHANGED finish_order
  /\ history' = [history EXCEPT !.writes =
       @ \cup StateWrites(i, sub_compact_states, sub_compact_states')]
  /\ UNCHANGED <<descriptor_vars, compaction_stats_, signal_vars, version_vars, state_vars, job_pc,
                 boundaries_, bottommost_level_, next_file_number,
                 compact_status, io_status_>>

\* A variant of MayStopBefore that asks ShouldStopBefore for every job.
MayStopBeforeAnyJob(c, pending_close) == ~pending_close

\* Whether the loop asks ShouldStopBefore (the projected overlap with the
\* grandparent files) about the next key: the output is not pending close
\* yet, the output level is not 0 and the compaction does not support
\* per-key placement.
MayStopBefore(c, pending_close) ==
  ~pending_close /\ c.output_level # 0 /\ ~c.supports_per_key_placement

\* One iteration of the loop of ProcessKeyValueCompaction.
ProcessKeyValue(i, fault) ==
  LET w == sub_compact_states[i]
  IN /\ job_pc = "Running"
     /\ w.pc = "loop"
     /\ w.loop_status = "OK" /\ ~cfd_dropped /\ Valid(w)
     /\ LoopFaultEnabled(w, fault)
     /\ LET a == AddToOutput(w, w.c_iter[w.pos],
                             NewFileNumber(next_file_number).file_number,
                             fault)
        IN /\ next_file_number' =
                IF a.opened THEN NewFileNumber(next_file_number).next
                ELSE next_file_number
           /\ IF a.s # "OK"
              THEN sub_compact_states' =
                     [sub_compact_states EXCEPT
                        ![i] = [a.w EXCEPT
                                  !.loop_status = a.s,
                                  !.pc = IF a.w.crashed THEN "crashed"
                                         ELSE @]]
              ELSE \E stop \in BOOLEAN :
                     LET n == CIterNext(a.w, fault)
                     IN /\ stop => Valid(n)
                                     /\ MayStopBefore(compaction,
                                                      n.pending_close)
                        /\ sub_compact_states' =
                             [sub_compact_states EXCEPT
                                ![i] = [n EXCEPT !.pending_close = @ \/ stop]]
     /\ history' = WorkerHistory(history, i, sub_compact_states,
                                  sub_compact_states')
     /\ UNCHANGED <<descriptor_vars, compaction_stats_, finish_order, signal_vars, version_vars,
                    state_vars, job_pc,
                    boundaries_, bottommost_level_, compact_status, io_status_>>

\* The signals that are set when the worker leaves its loop.
FlagsSet ==
  (IF manual_compaction_canceled THEN {"cancel"} ELSE {})
    \cup (IF shutting_down THEN {"shutdown"} ELSE {})
    \cup (IF cfd_dropped THEN {"dropped"} ELSE {})

\* A variant where the cancel signal is looked at before the shutdown
\* signal.
LoopExitStatusCancelFirst(w) ==
  LET s1 == IF w.loop_status = "OK" /\ cfd_dropped THEN "ColumnFamilyDropped"
            ELSE w.loop_status
      s2 == IF s1 \in {"OK", "ColumnFamilyDropped"} /\ manual_compaction_canceled
            THEN "ManualCompactionPaused" ELSE s1
      s3 == IF s2 \in {"OK", "ColumnFamilyDropped"} /\ shutting_down
            THEN "ShutdownInProgress" ELSE s2
      s4 == IF s3 = "OK" THEN w.input_status ELSE s3
  IN IF s4 = "OK" THEN w.c_iter_status ELSE s4

\* A variant where a signal does not replace ColumnFamilyDropped.
LoopExitStatusDroppedKept(w) ==
  LET s1 == IF w.loop_status = "OK" /\ cfd_dropped THEN "ColumnFamilyDropped"
            ELSE w.loop_status
      s2 == IF s1 = "OK" /\ shutting_down THEN "ShutdownInProgress" ELSE s1
      s3 == IF s2 = "OK" /\ manual_compaction_canceled
            THEN "ManualCompactionPaused" ELSE s2
      s4 == IF s3 = "OK" THEN w.input_status ELSE s3
  IN IF s4 = "OK" THEN w.c_iter_status ELSE s4

\* The status of the worker after its loop.
LoopExitStatus(w) ==
  LET s1 == IF w.loop_status = "OK" /\ cfd_dropped THEN "ColumnFamilyDropped"
            ELSE w.loop_status
      s2 == IF s1 \in {"OK", "ColumnFamilyDropped"} /\ shutting_down
            THEN "ShutdownInProgress" ELSE s1
      s3 == IF s2 \in {"OK", "ColumnFamilyDropped"} /\ manual_compaction_canceled
            THEN "ManualCompactionPaused" ELSE s2
      s4 == IF s3 = "OK" THEN w.input_status ELSE s3
  IN IF s4 = "OK" THEN w.c_iter_status ELSE s4

\* CloseCompactionFiles: a slice that produced nothing but has range
\* tombstones gets a file for them; the open output is finished whatever
\* the status.
CloseCompactionFiles(w, status, fnum, fault) ==
  LET opens == status = "OK" /\ ~w.builder /\ w.outputs = <<>> /\ HasRangeDel
      o == IF opens THEN OpenCompactionOutputFile(w, fnum, fault)
           ELSE [w |-> w, s |-> status]
      c == IF o.w.builder
           THEN FinishCompactionOutputFile(o.w, o.s, <<>>, fault)
           ELSE o
  IN [w |-> c.w, s |-> IF o.s = "OK" THEN c.s ELSE o.s, opened |-> opens]

\* Whether the fault can happen while w closes its files.
CloseFaultEnabled(w, status, fault) ==
  LET opens == status = "OK" /\ ~w.builder /\ w.outputs = <<>> /\ HasRangeDel
  IN CASE fault \in {"open_io", "unique_id"} -> opens
       [] fault \in {"close_io", "space"} -> w.builder \/ opens
       [] fault = "crash" ->
            /\ w.builder
            /\ ReadsBackOfEmpty(compaction,
                                Len(w.outputs[Len(w.outputs)].entries))
       [] fault = "none" -> TRUE
       [] OTHER -> FALSE

\* A variant of StoreStatus that writes the status into every state.
StoreStatusInAll(states, i, w) ==
  [j \in 1..Len(states) |->
     IF j = i THEN w ELSE [states[j] EXCEPT !.status = w.status]]

\* A variant of StoreStatus that also writes the status into the state of
\* the first sub-compaction.
StoreStatusInFirst(states, i, w) ==
  [j \in 1..Len(states) |->
     IF j = i THEN w
     ELSE IF j = 1 THEN [states[j] EXCEPT !.status = w.status]
     ELSE states[j]]

\* sub_compact->status = status: the worker writes its own state only.
StoreStatus(states, i, w) == [states EXCEPT ![i] = w]

\* Whether a sub-compaction can have a blob file builder, and so can end
\* with blob file additions: blob files are enabled for the output level.
BlobFileBuilders(c) == IF c.enable_blob_files THEN BOOLEAN ELSE {FALSE}

\* The end of ProcessKeyValueCompaction: the worker leaves its loop, closes
\* its files, finishes or abandons its blob file builder and stores its
\* status in its own state. wrote_blobs: the builder wrote a blob file.
ProcessFinish(i, fault) ==
  LET w == sub_compact_states[i]
      status == LoopExitStatus(w)
  IN /\ job_pc = "Running"
     /\ w.pc = "loop"
     /\ ~(w.loop_status = "OK" /\ ~cfd_dropped /\ Valid(w))
     /\ CloseFaultEnabled(w, status, fault)
     /\ \E wrote_blobs \in BlobFileBuilders(compaction) :
          LET c == CloseCompactionFiles(
                     w, status, NewFileNumber(next_file_number).file_number,
                     fault)
          IN /\ next_file_number' =
                  IF c.opened THEN NewFileNumber(next_file_number).next
                  ELSE next_file_number
             /\ sub_compact_states' =
                  IF fault = "crash"
                  THEN [sub_compact_states EXCEPT
                          ![i] = [c.w EXCEPT !.pc = "crashed"]]
                  ELSE
                  StoreStatus(sub_compact_states, i,
                              NotifyOnSubcompactionCompleted(
                                [c.w EXCEPT !.status = c.s, !.pc = "done",
                                            !.end_flags = FlagsSet,
                                            !.blob_file_additions =
                                              wrote_blobs]))
     /\ history' = WorkerHistory(history, i, sub_compact_states,
                                  sub_compact_states')
     /\ finish_order' = IF fault = "crash" THEN finish_order
                        ELSE Append(finish_order, i)
     /\ UNCHANGED <<descriptor_vars, compaction_stats_, signal_vars, version_vars, state_vars,
                    job_pc,
                    boundaries_, bottommost_level_, compact_status, io_status_>>

\* -------------------------------------------------------------------- Run
\* The caller of the job releases the db mutex for the whole of Run and
\* takes it again before Install.
MutexAroundRun == <<"Unlock", "Run", "Lock">>

\* Run starts: one thread per sub-compaction.
RunStart ==
  /\ job_pc = "Prepared"
  /\ job_pc' = "Running"
  /\ db_mutex_' = HolderAfter(db_mutex_, <<MutexAroundRun[1]>>)
  /\ UNCHANGED <<descriptor_vars, compaction_stats_, finish_order, signal_vars, version_vars,
                 compact_, history, boundaries_,
                 bottommost_level_, sub_compact_states, next_file_number,
                 compact_status, io_status_>>

\* The last output is dropped when it was never finished.
RemoveLastEmptyOutput(w) ==
  LET n == Len(w.outputs)
  IN IF n > 0 /\ ~w.outputs[n].finished
     THEN [w EXCEPT !.outputs = SubSeq(w.outputs, 1, n - 1)]
     ELSE w

\* A variant of FirstNonOk that takes the last non-OK state.
LastNonOk(states) ==
  IF \E i \in 1..Len(states) : states[i].status # "OK"
  THEN CHOOSE i \in 1..Len(states) :
         /\ states[i].status # "OK"
         /\ \A j \in (i + 1)..Len(states) : states[j].status = "OK"
  ELSE 0

\* The index of the state whose status Run adopts: the first non-OK one.
FirstNonOk(states) ==
  IF \E i \in 1..Len(states) : states[i].status # "OK"
  THEN CHOOSE i \in 1..Len(states) :
         /\ states[i].status # "OK"
         /\ \A j \in 1..(i - 1) : states[j].status = "OK"
  ELSE 0

StatusOf(states) ==
  LET i == FirstNonOk(states) IN IF i = 0 THEN "OK" ELSE states[i].status

IoStatusOf(states) ==
  LET i == FirstNonOk(states) IN IF i = 0 THEN "OK" ELSE states[i].io_status

\* All the output files of the job, in sub-compaction order.
RECURSIVE FilesOutput(_, _)
FilesOutput(states, n) ==
  IF n = 0 THEN <<>> ELSE FilesOutput(states, n - 1) \o states[n].outputs

\* What a verification thread can end with: every file it took was usable,
\* a file could not be opened, or the checksums of a file do not match.
VerifyErrors == {"OK", "IOError", "Corruption"}

\* A verification thread took file_idx from next_file_idx and found the
\* file usable (status OK) or not.
Claim(file_idx, thread, status) ==
  [file_idx |-> file_idx, thread |-> thread, status |-> status]

\* A variant of VerifyRuns where every thread counts the files for itself,
\* and so every running thread verifies every file.
RECURSIVE VerifyRunsOwnCounter(_, _, _, _)
VerifyRunsOwnCounter(file_idx, n, threads, Errors) ==
  IF file_idx > n \/ threads = {} THEN {<<>>}
  ELSE UNION {
         {[t \in 1..Cardinality(threads) |->
             Claim(file_idx, SortKeys(threads)[t], s)] \o rest :
            rest \in VerifyRunsOwnCounter(file_idx + 1, n,
                       IF s = "OK" THEN threads ELSE {}, Errors)} :
         s \in Errors}

\* What the verification threads can do with the files file_idx..n: the
\* fetch-add on next_file_idx hands every index to one of the threads that
\* are still running; a thread that finds its file unusable stops, the
\* others go on until the counter has passed n.
RECURSIVE VerifyRuns(_, _, _, _)
VerifyRuns(file_idx, n, threads, Errors) ==
  IF file_idx > n \/ threads = {} THEN {<<>>}
  ELSE UNION {
         {<<Claim(file_idx, t, s)>> \o rest :
            rest \in VerifyRuns(file_idx + 1, n,
                                IF s = "OK" THEN threads ELSE threads \ {t},
                                Errors)} :
         t \in threads, s \in Errors}

\* output_status of the n verification threads after the claims: the error
\* of the file on which the thread stopped, or OK.
OutputStatuses(claims, n) ==
  [t \in 1..n |->
     IF \E k \in DOMAIN claims :
          claims[k].thread = t /\ claims[k].status # "OK"
     THEN LET k == CHOOSE j \in DOMAIN claims :
                     claims[j].thread = t /\ claims[j].status # "OK"
          IN claims[k].status
     ELSE "OK"]

\* The verification threads: thread t writes the error of the file it found
\* unusable into the status of sub-compaction t.
VerifyTable(states, errs) ==
  [t \in 1..Len(states) |->
     IF errs[t] # "OK" THEN [states[t] EXCEPT !.status = errs[t]]
     ELSE states[t]]

\* What the verification threads write: each takes file indexes from the
\* shared counter next_file_idx, and one that finds an unusable file writes
\* the status of its own sub-compaction.
VerifyWrites(errs) ==
  {Wrote("verify", "next_file_idx", 0, ThreadFor(t)) : t \in DOMAIN errs}
    \cup {Wrote("verify", "sub_compact_states", t, ThreadFor(t)) :
            t \in {u \in DOMAIN errs : errs[u] # "OK"}}

\* A variant that joins the first worker thread only.
AllJoinedFirstOnly(states) == states[1].pc = "done"

\* Run joins every thread it started, after it processed the first
\* sub-compaction itself.
AllJoined(states) == \A i \in 1..Len(states) : states[i].pc = "done"

\* A variant that verifies the outputs whatever the status.
VerifiesAlways(status) == TRUE

\* The outputs are verified only when the status so far is OK.
Verifies(status) == status = "OK"

\* A variant of RunEvents that verifies the outputs before it syncs the
\* directory.
RunEventsVerifyFirst(syncs, verifies) ==
  <<"join">> \o (IF verifies THEN <<"verify">> ELSE <<>>)
    \o (IF syncs THEN <<"sync">> ELSE <<>>) \o <<"aggregate">>

\* What Run does after it processed the sub-compactions, in order: it joins
\* the threads, syncs the output directory when every worker status is OK,
\* verifies the outputs when the status is still OK, aggregates the
\* statistics.
RunEvents(syncs, verifies) ==
  <<"join">> \o (IF syncs THEN <<"sync">> ELSE <<>>)
    \o (IF verifies THEN <<"verify">> ELSE <<>>) \o <<"aggregate">>

\* AggregateCompactionStats: the outputs of every sub-compaction counted
\* into the statistics of the job.
AggregateCompactionStats(states) ==
  [num_output_files |-> Len(FilesOutput(states, Len(states))),
   num_output_records |-> SumSizes([i \in 1..Len(states) |->
                                      SumSizes([k \in 1..Len(states[i].outputs) |->
                                                  Len(states[i].outputs[k].entries)],
                                               Len(states[i].outputs))],
                                   Len(states))]

\* One directory sync of Run and what it returned.
DirSync(dir, failed) ==
  [dir |-> dir, status |-> IF failed THEN "IOError" ELSE "OK"]

\* A variant of DirSyncs that syncs the blob output directory whenever the
\* job has one.
DirSyncsBlobAlways(status, wrote_blobs, blob_dir, sync_fault, blob_fault) ==
  IF status # "OK" THEN <<>>
  ELSE <<DirSync("output", sync_fault)>>
         \o (IF blob_dir # "none"
             THEN <<DirSync("blob", blob_fault)>> ELSE <<>>)

\* The directory syncs of Run, in order: the output directory when the
\* status of the workers is OK, then the blob output directory when the
\* first sync returned OK, a worker wrote new blob files and the job has a
\* blob output directory that is not the output directory.
DirSyncs(status, wrote_blobs, blob_dir, sync_fault, blob_fault) ==
  IF status # "OK" THEN <<>>
  ELSE <<DirSync("output", sync_fault)>>
         \o (IF ~sync_fault /\ wrote_blobs /\ blob_dir = "distinct"
             THEN <<DirSync("blob", blob_fault)>> ELSE <<>>)

\* io_s after the directory syncs: what the last of them returned.
DirSyncStatus(io_s, syncs) ==
  IF syncs = <<>> THEN io_s ELSE syncs[Len(syncs)].status

\* wrote_new_blob_files: some sub-compaction has blob file additions.
WroteNewBlobFiles(states) ==
  \E i \in 1..Len(states) : states[i].blob_file_additions

\* The rest of Run once every worker thread has been joined. SyncFaults:
\* whether the fsync of a directory can fail (it runs only when the
\* status is OK); Errors: what a verification thread can end with (the
\* threads run only when the status is still OK after the sync, and each
\* that fails has taken a file of its own).
RunFinish(SyncFaults, Errors) ==
  /\ job_pc = "Running"
  /\ AllJoined(sub_compact_states)
  /\ LET states == [i \in 1..Len(sub_compact_states) |->
                      RemoveLastEmptyOutput(sub_compact_states[i])]
         status == StatusOf(states)
         io_s == IoStatusOf(states)
         io_1 == IF io_status_ = "OK" THEN io_s ELSE io_status_
     IN \E sync_fault \in {f \in SyncFaults : f => status = "OK"},
           blob_fault \in {f \in SyncFaults :
                             f => /\ status = "OK"
                                  /\ WroteNewBlobFiles(states)
                                  /\ compaction.blob_output_directory # "none"} :
          LET syncs == DirSyncs(status, WroteNewBlobFiles(states),
                                compaction.blob_output_directory,
                                sync_fault, blob_fault)
              io_s2 == DirSyncStatus(io_s, syncs)
              status2 == IF status = "OK" THEN io_s2 ELSE status
              verifies == Verifies(status2)
          IN \E claims \in IF verifies
                            THEN VerifyRuns(1, Len(FilesOutput(states,
                                                               Len(states))),
                                            1..Len(states), Errors)
                            ELSE {<<>>} :
               LET errs == OutputStatuses(claims, Len(states))
                   states2 == IF verifies THEN VerifyTable(states, errs)
                              ELSE states
               IN /\ sub_compact_states' = states2
                  /\ io_status_' = IF io_1 = "OK" THEN io_s2 ELSE io_1
                  /\ compact_status' =
                       IF verifies THEN StatusOf(states2) ELSE status2
                  /\ history' = [history EXCEPT
                       !.run_events = RunEvents(status = "OK", verifies),
                       !.dir_syncs = syncs,
                       !.verify =
                         [ran |-> verifies, worker_status |-> status,
                          sync |-> IF status # "OK" THEN "skipped"
                                   ELSE IF io_s2 # "OK" THEN "failed" ELSE "ok",
                          errors |-> IF verifies THEN errs ELSE <<>>,
                          claims |-> claims],
                       !.writes =
                         @ \cup (IF verifies THEN VerifyWrites(errs) ELSE {})]
  /\ compaction_stats_' = AggregateCompactionStats(sub_compact_states')
  /\ db_mutex_' = HolderAfter(db_mutex_, <<MutexAroundRun[3]>>)
  /\ job_pc' = "Ran"
  /\ UNCHANGED <<descriptor_vars, finish_order, signal_vars, version_vars,
                 compact_, boundaries_, bottommost_level_, next_file_number>>

\* ---------------------------------------------------------------- Install
\* A variant of AddOutputsEdit that takes the outputs of the first
\* sub-compaction only.
AddOutputsEditFirstOnly(states) == Range(states[1].outputs)

\* The files the edit adds: the outputs of every sub-compaction.
AddOutputsEdit(states) == Range(FilesOutput(states, Len(states)))

\* The flows with garbage that the meter of a sub-compaction holds for blob
\* file b.
GarbageFlows(w, b) ==
  IF w.blob_garbage_meter = <<>> THEN {}
  ELSE {f \in w.blob_garbage_meter[1] :
          f.blob_file_number = b /\ HasGarbage(f)}

\* blob_total_garbage[b] after the first n sub-compactions: <<>> when b has
\* no entry, else the one entry of b.
RECURSIVE BlobTotalGarbage(_, _, _)
BlobTotalGarbage(states, n, b) ==
  IF n = 0 THEN <<>>
  ELSE LET total == BlobTotalGarbage(states, n - 1, b)
           flows == GarbageFlows(states[n], b)
       IN IF flows = {} THEN total
          ELSE LET f == CHOOSE x \in flows : TRUE
               IN IF total = <<>>
                  THEN <<BlobInOutFlow(b, f.count, f.bytes)>>
                  ELSE <<BlobInOutFlow(b, total[1].count + f.count,
                                       total[1].bytes + f.bytes)>>

\* A variant of AddBlobFileGarbage that looks at the first sub-compaction
\* only.
RECURSIVE AddBlobFileGarbageFirstOnly(_, _)
AddBlobFileGarbageFirstOnly(states, nb) ==
  IF nb = 0 THEN <<>>
  ELSE AddBlobFileGarbageFirstOnly(states, nb - 1)
         \o BlobTotalGarbage(states, 1, nb)

\* The AddBlobFileGarbage calls of the edit for the blob files 1..nb, one for
\* each entry of blob_total_garbage.
RECURSIVE AddBlobFileGarbage(_, _)
AddBlobFileGarbage(states, nb) ==
  IF nb = 0 THEN <<>>
  ELSE AddBlobFileGarbage(states, nb - 1)
         \o BlobTotalGarbage(states, Len(states), nb)

\* edit->AddCompactCursor(level, cursor); the cursor is the next compact
\* cursor that the input version holds for the level.
CompactCursor(level) == [level |-> level, cursor |-> "NextCompactCursor"]

\* A variant of AddCompactCursor that does not look at the compaction
\* reason.
AddCompactCursorAnyReason(c) ==
  IF c.compaction_pri = "kRoundRobin" /\ c.start_level > 0
  THEN {CompactCursor(c.start_level)}
  ELSE {}

\* The cursor changes of the edit: the cursor of the start level advances
\* when the compaction was picked for the size of a level under the
\* round-robin priority and the start level is above 0.
AddCompactCursor(c) ==
  IF /\ c.compaction_reason = "kLevelMaxLevelSize"
     /\ c.compaction_pri = "kRoundRobin"
     /\ c.start_level > 0
  THEN {CompactCursor(c.start_level)}
  ELSE {}

\* The version edit of the job.
CompactionEdit(states) ==
  [deleted |-> InputNumbers, added |-> AddOutputsEdit(states),
   blob_garbage |-> AddBlobFileGarbage(states, NumBlobFiles),
   compact_cursors |-> AddCompactCursor(compaction)]

\* LogAndApply: the files of the version after the edit.
LogAndApply(files, e) ==
  {f \in files : f.num \notin e.deleted} \cup e.added

\* A variant of ShouldInstall that ignores the status of Run.
ShouldInstallAlways(status) == TRUE

\* Install applies the results only when the status of Run is OK.
ShouldInstall(status) == status = "OK"

\* Cleanup left out: the state stays allocated.
CleanupCompactionSkipped(c, calls) == [compact |-> c, calls |-> calls]

\* CleanupCompaction: delete the state of the job and null the pointer.
CleanupCompaction(c, calls) == [compact |-> nullptr, calls |-> calls + 1]

\* The destructor of the job asserts that the state was released.
DestructorAssertion == compact_ = nullptr

\* A step of Install, with the statistics it was given.
InstallEvent(name, stats) == [event |-> name, stats |-> stats]

\* A variant of InstallEvents that reports a job only when its status is OK.
InstallEventsWhenOk(status, stats) ==
  IF status = "OK"
  THEN <<InstallEvent("AddCompactionStats", stats),
         InstallEvent("InstallCompactionResults", stats),
         InstallEvent("compaction_finished", stats)>>
  ELSE <<>>

\* What Install does before it cleans up, in order: it adds the statistics
\* of the job to the internal statistics of the column family, installs the
\* results when the status of Run is OK, and writes the compaction_finished
\* record to the event log.
InstallEvents(status, stats) ==
  <<InstallEvent("AddCompactionStats", stats)>>
    \o (IF ShouldInstall(status)
        THEN <<InstallEvent("InstallCompactionResults", stats)>> ELSE <<>>)
    \o <<InstallEvent("compaction_finished", stats)>>

\* Install, with the db mutex asserted held on entry:
\* InstallCompactionResults when the status of Run is OK, then
\* CleanupCompaction. manifest_fault: writing the edit to the manifest fails.
Install(manifest_fault) ==
  /\ job_pc = "Ran"
  /\ compact_ # nullptr
  /\ manifest_fault => compact_status = "OK"
  /\ IF ShouldInstall(compact_status)
     THEN /\ edit' = CompactionEdit(sub_compact_states)
          /\ log_and_apply_calls' = log_and_apply_calls + 1
          /\ lsm' = IF manifest_fault THEN lsm
                    ELSE LogAndApply(lsm, CompactionEdit(sub_compact_states))
          /\ install_status' = IF manifest_fault THEN "IOError" ELSE "OK"
          /\ io_status_' = IF manifest_fault THEN "IOError" ELSE io_status_
     ELSE /\ install_status' = compact_status
          /\ UNCHANGED <<edit, log_and_apply_calls, lsm, io_status_>>
  /\ sub_compact_states' = <<>>
  /\ compact_' = CleanupCompaction(compact_, history.cleanup_calls).compact
  /\ history' = [history EXCEPT
       !.install_mutex = db_mutex_,
       !.install_events = InstallEvents(compact_status, compaction_stats_),
       !.cleanup_calls =
         CleanupCompaction(compact_, history.cleanup_calls).calls]
  /\ job_pc' = "Done"
  /\ UNCHANGED <<descriptor_vars, compaction_stats_, finish_order, signal_vars, boundaries_,
                 bottommost_level_, next_file_number, compact_status,
                 db_mutex_>>

\* ------------------------------------------------------------ environment
\* The database starts to shut down.
SetShutdown ==
  /\ job_pc \in {"Prepared", "Running"}
  /\ ~shutting_down
  /\ shutting_down' = TRUE
  /\ UNCHANGED <<descriptor_vars, compaction_stats_, finish_order, version_vars, state_vars, history, manual_compaction_canceled,
                 cfd_dropped, job_pc, boundaries_, bottommost_level_,
                 sub_compact_states, next_file_number, compact_status,
                 io_status_>>

\* The manual compaction is cancelled.
CancelManualCompaction ==
  /\ job_pc \in {"Prepared", "Running"}
  /\ ~manual_compaction_canceled
  /\ manual_compaction_canceled' = TRUE
  /\ UNCHANGED <<descriptor_vars, compaction_stats_, finish_order, version_vars, state_vars, history, shutting_down, cfd_dropped,
                 job_pc, boundaries_, bottommost_level_, sub_compact_states,
                 next_file_number, compact_status, io_status_>>

\* The column family is dropped.
DropColumnFamily ==
  /\ job_pc \in {"Prepared", "Running"}
  /\ ~cfd_dropped
  /\ cfd_dropped' = TRUE
  /\ UNCHANGED <<descriptor_vars, compaction_stats_, finish_order, version_vars, state_vars, history, shutting_down,
                 manual_compaction_canceled, job_pc, boundaries_,
                 bottommost_level_, sub_compact_states, next_file_number,
                 compact_status, io_status_>>

\* --------------------------------------------------------- specifications
\* Jobs for the runs with faults and signals: overwrites under a snapshot, a
\* range tombstone over two slices, a deletion, disjoint files.
Scenarios ==
  { [R |-> {Rec(1, 1, "Put", 1), Rec(2, 2, "Put", 2), Rec(3, 3, "Put", 3)},
     mofs |-> 2, snaps |-> {}],
    [R |-> {Rec(1, 1, "Put", 1), Rec(1, 3, "Put", 1), Rec(3, 2, "Put", 3)},
     mofs |-> 1, snaps |-> {1}],
    [R |-> {Rec(2, 1, "Put", 2), Rec(3, 3, "Put", 3),
            Rec(1, 2, "RangeDelete", 4)},
     mofs |-> 2, snaps |-> {}],
    [R |-> {Rec(2, 1, "Put", 2), Rec(2, 2, "Delete", 2), Rec(1, 3, "Put", 1)},
     mofs |-> 1, snaps |-> {2}] }

Init ==
  \E sc \in Scenarios, bm \in BOOLEAN, ignores \in BOOLEAN :
    InitJob([Descriptor(sc.R, bm, sc.mofs, MaxSubcompactions)
               EXCEPT !.filter_ignores_snapshots = ignores],
            sc.snaps)

Workers == 1..Len(sub_compact_states)

Next ==
  \/ Prepare
  \/ RunStart
  \/ \E i \in Workers : ProcessStart(i)
  \/ \E i \in Workers, fault \in WorkerFaults : ProcessKeyValue(i, fault)
  \/ \E i \in Workers, fault \in WorkerFaults : ProcessFinish(i, fault)
  \/ RunFinish(BOOLEAN, VerifyErrors)
  \/ \E manifest_fault \in BOOLEAN : Install(manifest_fault)
  \/ SetShutdown
  \/ CancelManualCompaction
  \/ DropColumnFamily

Spec == Init /\ [][Next]_vars

\* The fault-free runs over every job of the bounded universe.
NextData ==
  \/ Prepare
  \/ RunStart
  \/ \E i \in Workers : ProcessStart(i)
  \/ \E i \in Workers : ProcessKeyValue(i, "none")
  \/ \E i \in Workers : ProcessFinish(i, "none")
  \/ RunFinish({FALSE}, {"OK"})
  \/ Install(FALSE)

SpecData == InitData /\ [][NextData]_vars

\* The fault-free runs of one job over every assignment of flows to the
\* blob-garbage meters of its sub-compactions, and without blob files.
InitBlob ==
  \E flows \in {<<>>} \cup [1..MaxSubcompactions -> FlowMaps] :
    InitJob([Descriptor({Rec(1, 1, "Put", 1), Rec(2, 2, "Put", 2),
                         Rec(3, 3, "Put", 3)}, FALSE, 2, MaxSubcompactions)
               EXCEPT !.input_blob_flows = flows],
            {})

SpecBlob == InitBlob /\ [][NextData]_vars

\* Jobs for the planner: input files with one candidate bound, with two,
\* three and four of them.
PlanScenarios ==
  { {Rec(2, 1, "Put", 2), Rec(2, 2, "Put", 2)},
    {Rec(1, 1, "Put", 1), Rec(3, 3, "Put", 3)},
    {Rec(1, 1, "Put", 1), Rec(2, 2, "Put", 2), Rec(3, 3, "Put", 3)},
    {Rec(1, 1, "RangeDelete", 4), Rec(2, 2, "Put", 2), Rec(3, 3, "Put", 3)} }

\* The fault-free runs of the planner jobs over every limit on the number
\* of sub-compactions, every target file size and every assignment of
\* approximate sizes to the ranges.
InitPlan ==
  \E R \in PlanScenarios, mofs \in 1..MaxFileEntries,
     msub \in 1..MaxPlannedSubcompactions :
    \E sizes \in SizeEstimates(Descriptor(R, FALSE, mofs, msub)) :
      InitJob([Descriptor(R, FALSE, mofs, msub) EXCEPT !.approx_sizes = sizes],
              {})

SpecPlan == InitPlan /\ [][NextData]_vars

\* The fault-free runs of the planner jobs under comparators without and
\* with user timestamps.
InitTimestamps ==
  \E R \in PlanScenarios, mofs \in 1..MaxFileEntries,
     msub \in 1..MaxPlannedSubcompactions, ts \in {0, 8} :
    \E sizes \in SizeEstimates(Descriptor(R, FALSE, mofs, msub)) :
      InitJob([Descriptor(R, FALSE, mofs, msub)
                 EXCEPT !.approx_sizes = sizes, !.timestamp_size = ts],
              {})

SpecTimestamps == InitTimestamps /\ [][NextData]_vars

\* The runs of one job with blob files enabled, over every kind of blob
\* output directory: none, the output directory itself, a directory of its
\* own. A worker can fail to close its output and a directory sync can fail.
InitDirs ==
  \E blob_dir \in {"none", "same", "distinct"} :
    InitJob([Descriptor({Rec(1, 1, "Put", 1), Rec(2, 2, "Put", 2),
                         Rec(3, 3, "Put", 3)}, FALSE, 2, MaxSubcompactions)
               EXCEPT !.enable_blob_files = TRUE,
                      !.blob_output_directory = blob_dir],
            {})

NextDirs ==
  \/ Prepare
  \/ RunStart
  \/ \E i \in Workers : ProcessStart(i)
  \/ \E i \in Workers : ProcessKeyValue(i, "none")
  \/ \E i \in Workers, fault \in {"none", "close_io"} : ProcessFinish(i, fault)
  \/ RunFinish(BOOLEAN, {"OK"})
  \/ Install(FALSE)

SpecDirs == InitDirs /\ [][NextDirs]_vars

\* The runs of the jobs of the catalogue in which, besides the other faults
\* of a worker, the unique id of a new output file can fail to be generated.
NextEvents ==
  \/ Prepare
  \/ RunStart
  \/ \E i \in Workers : ProcessStart(i)
  \/ \E i \in Workers, fault \in WorkerFaults \cup {"unique_id"} :
       ProcessKeyValue(i, fault)
  \/ \E i \in Workers, fault \in WorkerFaults \cup {"unique_id"} :
       ProcessFinish(i, fault)
  \/ RunFinish({FALSE}, {"OK"})
  \/ Install(FALSE)

SpecEvents == Init /\ [][NextEvents]_vars

\* The fault-free runs of one job, manual or automatic, with and without
\* listeners and with a compaction filter that is supported or not, under
\* the shutdown and the cancel signal.
InitNotify ==
  \E listeners \in BOOLEAN, manual \in BOOLEAN, ignores \in BOOLEAN :
    InitJob([Descriptor({Rec(1, 1, "Put", 1), Rec(2, 2, "Put", 2),
                         Rec(3, 3, "Put", 3)}, FALSE, 2, MaxSubcompactions)
               EXCEPT !.listeners = listeners,
                      !.is_manual_compaction = manual,
                      !.filter_ignores_snapshots = ignores],
            {})

NextNotify ==
  \/ Prepare
  \/ RunStart
  \/ \E i \in Workers : ProcessStart(i)
  \/ \E i \in Workers : ProcessKeyValue(i, "none")
  \/ \E i \in Workers : ProcessFinish(i, "none")
  \/ RunFinish({FALSE}, {"OK"})
  \/ Install(FALSE)
  \/ SetShutdown
  \/ CancelManualCompaction

SpecNotify == InitNotify /\ [][NextNotify]_vars

\* The fault-free runs of jobs that write to level 0, to a level above 0,
\* and to the last level with per-key placement.
InitCut ==
  \E R \in {{Rec(1, 1, "Put", 1), Rec(2, 2, "Put", 2), Rec(3, 3, "Put", 3)},
             {Rec(1, 1, "Put", 1), Rec(1, 3, "Put", 1), Rec(3, 2, "Put", 3)}},
     mofs \in 1..MaxFileEntries, level \in 0..1, per_key \in BOOLEAN,
     snaps \in {{}, {1}} :
    /\ per_key => level # 0
    /\ InitJob([Descriptor(R, FALSE, mofs, MaxSubcompactions)
                  EXCEPT !.output_level = level,
                         !.supports_per_key_placement = per_key],
               snaps)

SpecCut == InitCut /\ [][NextData]_vars

\* The runs of single-slice jobs over two disjoint input files of the
\* start level, for every compaction reason, compaction priority and start
\* level; a worker can fail to close its output.
InitCursor ==
  \E reason \in {"kLevelMaxLevelSize", "kLevelL0FilesNum"},
     pri \in {"kRoundRobin", "kByCompensatedSize"},
     level \in 0..1, mofs \in 1..MaxFileEntries :
    InitJob([Descriptor({Rec(1, 1, "Put", 1), Rec(2, 2, "Put", 2),
                         Rec(3, 3, "Put", 3)}, FALSE, mofs, 1)
               EXCEPT !.compaction_reason = reason,
                      !.compaction_pri = pri,
                      !.start_level = level,
                      !.output_level = level + 1],
            {})

SpecCursor == InitCursor /\ [][NextDirs]_vars

\* The views of the input version that the write-hint planning reads: the
\* number of non-empty levels, the bytes of the next level that overlap an
\* output, the sorted scores of the files of the output level (none when
\* the level has no file) and the index of the next file to compact.
StorageViews ==
  [num_non_empty_levels : 2..4,
   overlapping_bytes : 0..MaxOverlappingBytes,
   file_scores : {<<>>, <<50512>>, <<50512, 52048>>},
   next_compaction_index : 0..1]

\* The runs of single-slice jobs to level 1 under every storage view; a
\* worker can fail to close an output, and the read of the last score of an
\* empty score list can stop the process.
InitHint ==
  \E R \in {{Rec(1, 1, "Put", 1), Rec(2, 2, "Put", 2), Rec(3, 3, "Put", 3)},
            {Rec(1, 1, "RangeDelete", 4)}},
     mofs \in 1..MaxFileEntries, v \in StorageViews :
    InitJob([Descriptor(R, FALSE, mofs, 1) EXCEPT !.vstorage = v], {})

NextHint ==
  \/ Prepare
  \/ RunStart
  \/ \E i \in Workers : ProcessStart(i)
  \/ \E i \in Workers, fault \in {"none", "close_io", "crash"} :
       ProcessKeyValue(i, fault)
  \/ \E i \in Workers, fault \in {"none", "close_io", "crash"} :
       ProcessFinish(i, fault)
  \/ RunFinish({FALSE}, {"OK"})
  \/ Install(FALSE)

SpecHint == InitHint /\ [][NextHint]_vars

\* ------------------------------------------------------------- properties
\* The outputs held by the sub-compaction states.
JobOutputs ==
  UNION {Range(sub_compact_states[i].outputs) : i \in Workers}

\* C1: Install puts the deletion of every input and the addition of every
\* output of every sub-compaction into one edit and applies it with a single
\* LogAndApply call; the version holds either all the inputs and no output,
\* or all the outputs and no input, never a mixture.
C1_AtomicInstall ==
  /\ [](\/ lsm = compaction.inputs
        \/ /\ job_pc = "Done"
           /\ lsm = edit.added
           /\ \A f \in lsm : f.num \notin InputNumbers)
  /\ [](log_and_apply_calls <= 1)
  /\ [][(job_pc = "Ran" /\ compact_status = "OK" /\ job_pc' = "Done")
          => /\ edit'.deleted = {f.num : f \in compaction.inputs}
             /\ edit'.added = JobOutputs
             /\ log_and_apply_calls' = log_and_apply_calls + 1]_vars

\* An installed job whose two sub-compactions both produced a file.
C1_Witness ==
  /\ job_pc = "Done" /\ install_status = "OK" /\ log_and_apply_calls = 1
  /\ Len(boundaries_) = 1
  /\ \E f \in lsm, g \in lsm :
       /\ Range(f.entries) # {} /\ Range(g.entries) # {}
       /\ \A r \in Range(f.entries) : r.ukey < boundaries_[1]
       /\ \A r \in Range(g.entries) : r.ukey >= boundaries_[1]

\* C2: when the status stored by Run is not OK, Install does not call
\* LogAndApply, builds no edit, and the version holds the files it held
\* before the job started.
C2_FailedJobLeavesLsm ==
  (job_pc = "Done" /\ compact_status # "OK")
    => /\ log_and_apply_calls = 0
       /\ edit = NoEdit
       /\ lsm = compaction.inputs
       /\ install_status = compact_status

\* A cancelled job that had already created an output file.
C2_Witness ==
  /\ job_pc = "Done" /\ compact_status = "ManualCompactionPaused"
  /\ next_file_number > MaxOf(InputNumbers) + 1
  /\ lsm = compaction.inputs

\* The job ended with its results installed.
Installed == job_pc = "Done" /\ install_status = "OK"

\* C3: after a successful compaction, for every snapshot s of the job's
\* snapshot list and every user key u, the value visible for u under s in
\* the installed files is the value visible for u under s in the inputs.
C3_VisibilityPreserved ==
  Installed =>
    \A s \in existing_snapshots_ : \A u \in UserKeys :
      Visible(lsm, u, s) = Visible(compaction.inputs, u, s)

\* An installed job under a snapshot that sees a value of a key with a newer
\* version, where a record was dropped and a slice boundary was used.
C3_Witness ==
  /\ Installed
  /\ boundaries_ # <<>>
  /\ \E s \in existing_snapshots_ : \E u \in UserKeys :
       /\ Visible(lsm, u, s) # 0
       /\ \E r \in InputRecords(compaction) : r.ukey = u /\ r.seq > s
  /\ \E r \in InputRecords(compaction) :
       \A f \in lsm : r \notin Range(f.entries)

\* C4: every record and every tombstone span in the outputs of a
\* sub-compaction lies inside its slice [start, end).
C4_OutputsInsideSlice ==
  \A i \in Workers :
    LET w == sub_compact_states[i]
    IN \A k \in 1..Len(w.outputs) :
         /\ \A r \in Range(w.outputs[k].entries) :
              /\ w.start = nullptr \/ r.ukey >= w.start
              /\ w.end = nullptr \/ r.ukey < w.end
         /\ \A t \in w.outputs[k].range_dels :
              /\ w.start = nullptr \/ FragLo(w.outputs[k], t) >= w.start
              /\ w.end = nullptr \/ FragHi(w.outputs[k], t) <= w.end

\* Two slices with output, where the inputs hold two versions of the
\* boundary key and the second slice received them.
C4_Witness ==
  /\ Len(sub_compact_states) = 2
  /\ sub_compact_states[1].pc = "done" /\ sub_compact_states[2].pc = "done"
  /\ sub_compact_states[1].outputs # <<>>
  /\ \E r1 \in InputRecords(compaction), r2 \in InputRecords(compaction) :
       /\ r1.ukey = boundaries_[1] /\ r2.ukey = boundaries_[1] /\ r1 # r2
       /\ \E k \in 1..Len(sub_compact_states[2].outputs) :
            r1 \in Range(sub_compact_states[2].outputs[k].entries)

\* The user-key range of the point records of a file.
EntryKeys(f) == {r.ukey : r \in Range(f.entries)}

\* C5: the user-key ranges of two distinct output files of the job do not
\* overlap; no user key is the largest key of one output and the smallest of
\* another. Stated over the point records of the files.
C5_DisjointOutputs ==
  \A f \in JobOutputs, g \in JobOutputs :
    (f # g /\ EntryKeys(f) # {} /\ EntryKeys(g) # {})
      => \/ \A a \in EntryKeys(f), b \in EntryKeys(g) : a < b
         \/ \A a \in EntryKeys(f), b \in EntryKeys(g) : b < a

\* The records of a sequence of files, in file order.
RECURSIVE Flatten(_)
Flatten(files) ==
  IF files = <<>> THEN <<>> ELSE Head(files).entries \o Flatten(Tail(files))

\* C6: the internal keys of every output file are strictly increasing, and
\* so are the outputs of one sub-compaction taken in creation order.
C6_OutputsSorted ==
  \A i \in Workers :
    LET es == Flatten(sub_compact_states[i].outputs)
    IN \A a \in 1..Len(es), b \in 1..Len(es) :
         a < b => InternalKeyLess(es[a], es[b])

\* A sub-compaction that wrote two versions of one user key and then another
\* user key into more than one file.
C6_Witness ==
  \E i \in Workers :
    LET w == sub_compact_states[i]
        es == Flatten(w.outputs)
    IN /\ w.pc = "done" /\ Len(w.outputs) >= 2 /\ Len(es) >= 3
       /\ es[1].ukey = es[2].ukey /\ es[2].ukey < es[3].ukey

\* C7: no installed file is empty: every file the edit adds has at least one
\* entry or one range deletion.
C7_NoEmptyFileInstalled ==
  \A f \in edit.added \cup lsm :
    Len(f.entries) + Cardinality(f.range_dels) > 0

\* An installed job one of whose output files was created, found empty when
\* finished, and removed.
C7_Witness ==
  /\ Installed
  /\ ~shutting_down /\ ~manual_compaction_canceled /\ ~cfd_dropped
  /\ io_status_ = "OK"
  /\ next_file_number > MaxOf(InputNumbers) + 1 + Cardinality(edit.added)
  /\ edit.added # {}

\* C8: the (user key, sequence) pairs of the records in the installed files
\* are pairs of records of the inputs.
Pairs(files) ==
  {<<r.ukey, r.seq>> :
     r \in UNION {Range(f.entries) \cup f.range_dels : f \in files}}

C8_NoNewSequencePairs ==
  /\ Installed => Pairs(lsm) \subseteq Pairs(compaction.inputs)
  /\ Pairs(JobOutputs) \subseteq Pairs(compaction.inputs)

\* An installed job that dropped a record and kept another.
C8_Witness ==
  /\ Installed
  /\ Pairs(lsm) # {}
  /\ Pairs(lsm) # Pairs(compaction.inputs)

\* C9: when a worker status is not OK after the join, Run adopts the first
\* non-OK worker status in slice order.
C9_FirstNonOkStatusAdopted ==
  [][(job_pc = "Running" /\ job_pc' = "Ran")
       => \A i \in Workers :
            (/\ sub_compact_states[i].status # "OK"
             /\ \A j \in 1..(i - 1) : sub_compact_states[j].status = "OK")
              => compact_status' = sub_compact_states[i].status]_vars

\* Run has adopted the status of the first slice although the second slice
\* failed earlier, with another status.
C9_Witness ==
  /\ job_pc = "Ran"
  /\ Len(sub_compact_states) = 2
  /\ finish_order = <<2, 1>>
  /\ sub_compact_states[1].status # "OK"
  /\ sub_compact_states[2].status # "OK"
  /\ sub_compact_states[1].status # sub_compact_states[2].status
  /\ compact_status = sub_compact_states[1].status

\* Whether the worker has consumed every record of its slice.
Exhausted(w) == w.pos > Len(CIter(w))

\* C10: a step of a worker writes the state of that worker only; a worker
\* ends with a non-OK status only after an error of its own or a signal, and
\* a worker that ended with status OK has consumed its whole slice, whatever
\* happened to the others.
C10_ErrorStopsOnlyItsWorker ==
  /\ [][(job_pc = "Running" /\ job_pc' = "Running")
          => \A i \in Workers, j \in Workers :
               (i # j /\ sub_compact_states'[i] # sub_compact_states[i])
                 => sub_compact_states'[j] = sub_compact_states[j]]_vars
  /\ [](job_pc = "Running" =>
          \A j \in Workers :
            LET w == sub_compact_states[j]
            IN /\ w.status # "OK" =>
                    \/ w.faulted
                    \/ shutting_down \/ manual_compaction_canceled \/ cfd_dropped
               /\ (w.pc = "done" /\ w.status = "OK") => Exhausted(w)
               /\ w.pc # "done" => w.status = "OK")

\* The first slice failed on an error of its own; the second, which ended
\* later, consumed its whole slice, wrote output and ended with status OK.
C10_Witness ==
  /\ job_pc = "Running"
  /\ Len(sub_compact_states) = 2
  /\ finish_order = <<1, 2>>
  /\ sub_compact_states[1].status \notin {"OK", "ShutdownInProgress",
                                           "ManualCompactionPaused",
                                           "ColumnFamilyDropped"}
  /\ sub_compact_states[2].status = "OK"
  /\ sub_compact_states[2].outputs # <<>>
  /\ Exhausted(sub_compact_states[2])

\* ------------------------------------------------ threads, signals and locks
\* Worker i leaves its key loop in this step.
LeavesLoop(i) ==
  /\ job_pc = "Running" /\ job_pc' = "Running"
  /\ i \in DOMAIN sub_compact_states
  /\ sub_compact_states[i].pc = "loop"
  /\ sub_compact_states'[i].pc = "done"

\* C11: Run processes each sub-compaction exactly once, the first on the
\* calling thread and every other on a thread of its own, and it looks at no
\* worker status, syncs no directory and verifies no output before every
\* worker has finished.
C11_RunJoinsAllWorkers ==
  /\ [](job_pc \in {"Created", "Prepared", "Running"} =>
          /\ compact_status = "OK"
          /\ history.verify = NoHistory.verify
          /\ \A i \in DOMAIN sub_compact_states :
               /\ sub_compact_states[i].runs <= 1
               /\ sub_compact_states[i].threads \subseteq {ThreadFor(i)})
  /\ [][job_pc = "Running" /\ job_pc' = "Ran" =>
          \A i \in DOMAIN sub_compact_states :
            /\ sub_compact_states[i].pc = "done"
            /\ sub_compact_states[i].runs = 1
            /\ sub_compact_states[i].threads = {ThreadFor(i)}
            /\ (sub_compact_states[i].threads = {0}) = (i = 1)
            /\ \A j \in DOMAIN sub_compact_states :
                 j # i => sub_compact_states[j].threads
                            # sub_compact_states[i].threads]_vars

\* Run has returned for a job of two sub-compactions whose second worker
\* ended before the first, and the outputs were verified.
C11_Witness ==
  /\ job_pc = "Ran"
  /\ Len(sub_compact_states) = 2
  /\ finish_order = <<2, 1>>
  /\ history.verify.ran

\* C12 as stated: a worker without an earlier error that finds the cancel
\* signal set at the end of its loop ends with ManualCompactionPaused, one
\* that finds the shutdown signal set ends with ShutdownInProgress, and none
\* ends with OK when a signal is set.
C12_SignalGivesItsStatus ==
  [][\A i \in DOMAIN sub_compact_states :
       LeavesLoop(i) /\ sub_compact_states[i].loop_status = "OK" =>
         /\ manual_compaction_canceled =>
              sub_compact_states'[i].status = "ManualCompactionPaused"
         /\ shutting_down =>
              sub_compact_states'[i].status = "ShutdownInProgress"
         /\ manual_compaction_canceled \/ shutting_down =>
              sub_compact_states'[i].status # "OK"]_vars

\* C12, amended: a worker without an earlier error that finds the shutdown
\* signal set at the end of its loop ends with ShutdownInProgress; one that
\* finds the cancel signal set and the shutdown signal clear ends with
\* ManualCompactionPaused; none ends with OK when a signal is set.
C12_ShutdownBeforeCancel ==
  [][\A i \in DOMAIN sub_compact_states :
       LeavesLoop(i) /\ sub_compact_states[i].loop_status = "OK" =>
         /\ manual_compaction_canceled /\ ~shutting_down =>
              sub_compact_states'[i].status = "ManualCompactionPaused"
         /\ shutting_down =>
              sub_compact_states'[i].status = "ShutdownInProgress"
         /\ manual_compaction_canceled \/ shutting_down =>
              sub_compact_states'[i].status # "OK"]_vars

\* A worker without an earlier error found both signals set at the end of
\* its loop, and another found the cancel signal alone.
C12_Witness ==
  \E i, j \in DOMAIN sub_compact_states :
    /\ sub_compact_states[i].pc = "done"
    /\ sub_compact_states[i].loop_status = "OK"
    /\ sub_compact_states[i].end_flags = {"cancel", "shutdown"}
    /\ sub_compact_states[i].status = "ShutdownInProgress"
    /\ sub_compact_states[j].pc = "done"
    /\ sub_compact_states[j].loop_status = "OK"
    /\ sub_compact_states[j].end_flags = {"cancel"}
    /\ sub_compact_states[j].status = "ManualCompactionPaused"

\* The statuses of the cancel and shutdown signals.
SignalStatuses == {"ManualCompactionPaused", "ShutdownInProgress"}

JobSteps ==
  {<<"Created", "Prepared">>, <<"Prepared", "Running">>,
   <<"Running", "Ran">>, <<"Ran", "Done">>}

\* C15: the steps of the job happen in the order Prepare, Run, Install,
\* Cleanup only, and Install cleans up exactly once whatever the status:
\* afterwards no sub-compaction state is left and compact_ is null, so the
\* assertion of the destructor holds.
C15_CleanupOnceOnEveryPath ==
  /\ [][job_pc' # job_pc => <<job_pc, job_pc'>> \in JobSteps]_vars
  /\ [](job_pc # "Done" =>
          history.cleanup_calls = 0 /\ compact_ # nullptr)
  /\ [](job_pc = "Done" =>
          /\ history.cleanup_calls = 1
          /\ sub_compact_states = <<>>
          /\ compact_ = nullptr
          /\ DestructorAssertion)

\* Install has returned a non-OK status for a job that had written an output
\* file, and the job is cleaned up.
C15_Witness ==
  /\ job_pc = "Done"
  /\ install_status # "OK"
  /\ next_file_number > MaxOf(InputNumbers) + 1
  /\ history.cleanup_calls = 1
  /\ compact_ = nullptr

\* C16: no worker thread acquires the database mutex while it processes its
\* slice, opening, finishing and closing output files included.
C16_WorkersNeverLock == history.worker_locks = {}

\* Every size query of the events runs with the mutex released just before
\* it and taken again just after it, and the mutex is released and taken
\* nowhere else.
AroundSizeQueries(events) ==
  \A k \in DOMAIN events :
    /\ events[k] = "ApproximateSize" =>
         /\ k > 1 /\ events[k - 1] = "Unlock"
         /\ k < Len(events) /\ events[k + 1] = "Lock"
    /\ events[k] = "Unlock" =>
         k < Len(events) /\ events[k + 1] = "ApproximateSize"
    /\ events[k] = "Lock" => k > 1 /\ events[k - 1] = "ApproximateSize"

\* C17: the database mutex is held on entry to and on exit from Prepare and
\* is released exactly around each approximate-size query of the planner,
\* never released while released; Install and InstallCompactionResults run
\* with the mutex held.
C17_MutexAroundSizeQueries ==
  /\ db_mutex_ # "error"
  /\ job_pc \in {"Created", "Prepared", "Ran", "Done"} => db_mutex_ = "caller"
  /\ AroundSizeQueries(history.mutex_events)
  /\ job_pc # "Created" /\ ShouldFormSubcompactions(compaction) =>
       Cardinality({k \in DOMAIN history.mutex_events :
                      history.mutex_events[k] = "ApproximateSize"})
         = NumRanges(compaction)
  /\ job_pc = "Done" => history.install_mutex = "caller"

\* A job whose planner made two size queries has been installed.
C17_Witness ==
  /\ job_pc = "Done"
  /\ install_status = "OK"
  /\ Len(history.mutex_events) >= 6
  /\ history.install_mutex = "caller"

\* The verification threads that found an unusable output.
FailedVerifiers ==
  {t \in DOMAIN history.verify.errors : history.verify.errors[t] # "OK"}

\* C18: the outputs are verified only when every worker ended with status OK
\* and the directory sync succeeded; when an output cannot be opened or its
\* checksums do not match, Run returns a non-OK status (Corruption on a
\* mismatch) and the outputs are not installed.
C18_VerificationGuardsInstall ==
  /\ history.verify.ran =>
       history.verify.worker_status = "OK" /\ history.verify.sync = "ok"
  /\ ~history.verify.ran => FailedVerifiers = {}
  /\ FailedVerifiers # {} /\ job_pc \in {"Ran", "Done"} =>
       /\ compact_status # "OK"
       /\ compact_status \in
            {history.verify.errors[t] : t \in FailedVerifiers}
  /\ FailedVerifiers # {} /\ job_pc = "Done" =>
       /\ install_status = compact_status
       /\ log_and_apply_calls = 0
       /\ lsm = compaction.inputs

\* A job of two sub-compactions is over whose second verification thread
\* found checksums that do not match: its status is Corruption and the
\* version holds the inputs.
C18_Witness ==
  /\ job_pc = "Done"
  /\ history.verify.ran
  /\ history.verify.errors = <<"OK", "Corruption">>
  /\ install_status = "Corruption"
  /\ lsm = compaction.inputs

\* C19 as stated: when the planned number S of sub-compactions is above 1,
\* the planner emits exactly S - 1 boundaries and Prepare creates exactly S
\* sub-compactions, whatever the approximate sizes.
C19_ExactlyPlannedSlices ==
  job_pc \in {"Prepared", "Running", "Ran"} /\ history.subcompactions > 1 =>
    /\ Len(boundaries_) = history.subcompactions - 1
    /\ Len(sub_compact_states) = history.subcompactions

\* C19, amended: when the planned number S of sub-compactions is above 1,
\* the planner emits at most S - 1 boundaries, and Prepare creates one
\* sub-compaction more than there are boundaries, so between 1 and S.
C19_AtMostPlannedSlices ==
  job_pc \in {"Prepared", "Running", "Ran"} /\ history.subcompactions > 1 =>
    /\ Len(boundaries_) <= history.subcompactions - 1
    /\ Len(sub_compact_states) = Len(boundaries_) + 1
    /\ Len(sub_compact_states) \in 1..history.subcompactions

\* Two sub-compactions were planned and the sweep emitted no boundary.
C19_Witness ==
  /\ job_pc = "Prepared"
  /\ history.subcompactions = 2
  /\ boundaries_ = <<>>
  /\ Len(sub_compact_states) = 1

\* The variables that two different threads wrote in one phase of Run.
SharedVariables ==
  {a.var : a \in {x \in history.writes :
                    \E y \in history.writes :
                      /\ y.phase = x.phase /\ y.var = x.var
                      /\ y.idx = x.idx /\ y.thread # x.thread}}

\* Every sub-compaction state is written by the thread of its own
\* sub-compaction only.
OwnStateOnly ==
  \A a \in history.writes :
    a.var = "sub_compact_states" => a.thread = ThreadFor(a.idx)

SliceRangeDels(w) ==
  {t \in InputRangeDels(compaction) :
     /\ ~(bottommost_level_ /\ t.seq < EarliestSnapshot)
     /\ t.ukey < EndBound(w) /\ StartBound(w) < t.uend}

\* The range tombstones held by the files.
RangeDelsIn(files) == UNION {files[k].range_dels : k \in DOMAIN files}

OutputRecords ==
  Flatten(FilesOutput(sub_compact_states, Len(sub_compact_states)))

\* Records of one user key in one snapshot bucket.
SameKeyAndBucket(a, b) ==
  /\ a.ukey = b.ukey
  /\ Bucket(a.seq, existing_snapshots_) = Bucket(b.seq, existing_snapshots_)

\* C22: for every user key and every snapshot bucket, the outputs of the
\* compaction hold at most one record of that user key in that bucket, and it
\* is the input record with the highest sequence in the bucket.
C22_OneRecordPerKeyAndBucket ==
  LET es == OutputRecords
  IN /\ \A a \in DOMAIN es, b \in DOMAIN es :
          a # b => ~SameKeyAndBucket(es[a], es[b])
     /\ \A a \in DOMAIN es :
          /\ es[a] \in InputRecords(compaction)
          /\ \A r \in InputRecords(compaction) :
               SameKeyAndBucket(r, es[a]) => r.seq <= es[a].seq

\* An installed job over three versions of one user key under a snapshot:
\* the outputs hold the version in the bucket of the snapshot and the newest
\* of the two above it.
C22_Witness ==
  /\ Installed
  /\ existing_snapshots_ # {}
  /\ \E u \in UserKeys :
       /\ Cardinality({r \in InputRecords(compaction) : r.ukey = u}) = 3
       /\ Cardinality({r \in UNION {Range(f.entries) : f \in lsm} :
                         r.ukey = u}) = 2

\* The steps of Install with the name.
InstallEventsNamed(name) ==
  {k \in DOMAIN history.install_events :
     history.install_events[k].event = name}

\* C23: every call of Install adds the statistics of the job to the internal
\* statistics of the column family and writes the compaction_finished record
\* to the event log, whether the status of the job is OK or not.
C23_StatsAndEventOnEveryInstall ==
  /\ job_pc # "Done" => history.install_events = <<>>
  /\ job_pc = "Done" =>
       /\ Cardinality(InstallEventsNamed("AddCompactionStats")) = 1
       /\ Cardinality(InstallEventsNamed("compaction_finished")) = 1
       /\ \A k \in DOMAIN history.install_events :
            history.install_events[k].stats = compaction_stats_
       /\ (InstallEventsNamed("InstallCompactionResults") # {})
            = (compact_status = "OK")

\* Install has returned for a job that failed after it had written an output
\* file: the statistics were added and the event was logged, and nothing was
\* installed.
C23_Witness ==
  /\ job_pc = "Done"
  /\ compact_status # "OK"
  /\ next_file_number > MaxOf(InputNumbers) + 1
  /\ InstallEventsNamed("AddCompactionStats") # {}
  /\ InstallEventsNamed("compaction_finished") # {}
  /\ InstallEventsNamed("InstallCompactionResults") = {}

\* The position of step e in the order.
PositionIn(order, e) == CHOOSE k \in DOMAIN order : order[k] = e

\* The events are steps of the order, each at most once, in that order.
InOrder(events, order) ==
  /\ \A a \in DOMAIN events : events[a] \in Range(order)
  /\ \A a \in DOMAIN events, b \in DOMAIN events :
       a < b => PositionIn(order, events[a]) < PositionIn(order, events[b])

ReportedGarbage(w, b, field) ==
  LET flows == IF w.blob_garbage_meter = <<>> THEN {}
               ELSE {f \in w.blob_garbage_meter[1] : f.blob_file_number = b}
  IN IF flows = {} THEN 0
     ELSE IF field = "count" THEN (CHOOSE f \in flows : TRUE).count
     ELSE (CHOOSE f \in flows : TRUE).bytes

\* The garbage entries of blob file b in the edit e.
GarbageEntries(e, b) ==
  {k \in DOMAIN e.blob_garbage : e.blob_garbage[k].blob_file_number = b}

\* C25: for every blob file, the garbage count and bytes recorded in the
\* version edit are the sums over all the sub-compactions of the garbage
\* count and bytes that the meter of the sub-compaction reports for the blob
\* file; a blob file for which no sub-compaction reports garbage gets no
\* entry, and each blob file gets at most one entry.
C25_BlobGarbageSummed ==
  [][(job_pc = "Ran" /\ job_pc' = "Done" /\ compact_status = "OK") =>
       \A b \in BlobFiles :
         LET n == Len(sub_compact_states)
             count == SumSizes([i \in 1..n |->
                        ReportedGarbage(sub_compact_states[i], b, "count")], n)
             bytes == SumSizes([i \in 1..n |->
                        ReportedGarbage(sub_compact_states[i], b, "bytes")], n)
         IN /\ Cardinality(GarbageEntries(edit', b)) <= 1
            /\ (GarbageEntries(edit', b) = {}) = (count = 0)
            /\ \A k \in GarbageEntries(edit', b) :
                 /\ edit'.blob_garbage[k].count = count
                 /\ edit'.blob_garbage[k].bytes = bytes]_vars

\* A job of two sub-compactions is installed whose meters both reported
\* garbage for blob file 1, with different bytes, and one of which held a
\* flow without garbage for blob file 2: the edit has the one entry of blob
\* file 1 with the sums.
C25_Witness ==
  /\ Installed
  /\ Len(boundaries_) = 1
  /\ DoesInputReferenceBlobFiles(compaction)
  /\ BlobInOutFlow(1, 1, 1) \in compaction.input_blob_flows[1]
  /\ BlobInOutFlow(1, 1, 2) \in compaction.input_blob_flows[2]
  /\ BlobInOutFlow(2, 0, 0) \in compaction.input_blob_flows[2]
  /\ edit.blob_garbage = <<BlobInOutFlow(1, 2, 3)>>

\* Whether user key u lies in the slice [start, end) of state w.
InSlice(u, w) ==
  /\ w.start = nullptr \/ w.start <= u
  /\ w.end = nullptr \/ u < w.end

\* Prepare has run and the sub-compaction states are still there.
Planned == job_pc \in {"Prepared", "Running", "Ran"}

\* C26: the boundaries chosen by the planner are strictly increasing, and
\* Prepare creates one sub-compaction per gap: the first has an unbounded
\* start, the last an unbounded end, and the end of each is the start of the
\* next, so every user key lies in exactly one slice.
C26_SlicesPartitionTheKeys ==
  Planned =>
    LET n == Len(sub_compact_states)
    IN /\ \A a \in DOMAIN boundaries_, b \in DOMAIN boundaries_ :
            a < b => boundaries_[a] < boundaries_[b]
       /\ n = Len(boundaries_) + 1
       /\ sub_compact_states[1].start = nullptr
       /\ sub_compact_states[n].end = nullptr
       /\ \A i \in 1..(n - 1) :
            /\ sub_compact_states[i].end = boundaries_[i]
            /\ sub_compact_states[i + 1].start = sub_compact_states[i].end
       /\ \A u \in 1..KeyInf :
            Cardinality({i \in 1..n : InSlice(u, sub_compact_states[i])}) = 1

\* Prepare has created three sub-compactions from two boundaries.
C26_Witness ==
  /\ job_pc = "Prepared"
  /\ Len(boundaries_) = 2
  /\ Len(sub_compact_states) = 3

\* The least n with n * den >= num: ceil(num / den).
CeilDiv(num, den) ==
  CHOOSE n \in 0..num : n * den >= num /\ (n = 0 \/ (n - 1) * den < num)

\* The number of output files expected for the approximate sizes of the
\* job: ceil(total size / (0.8 * target file size)).
ExpectedOutputFiles(c) ==
  CeilDiv(5 * SumSizes(c.approx_sizes, Len(c.approx_sizes)),
          4 * c.max_output_file_size)

\* C27: the number of sub-compactions that Prepare creates is at least 1
\* and at most max(1, min(N, number of candidate ranges, max_subcompactions))
\* with N = ceil(total approximate size / (0.8 * target file size)), for
\* every assignment of approximate sizes.
C27_SubcompactionsBounded ==
  Planned =>
    LET N == ExpectedOutputFiles(compaction)
        S == Min(N, Min(NumRanges(compaction), compaction.max_subcompactions))
    IN /\ Len(sub_compact_states) >= 1
       /\ Len(sub_compact_states) <= IF S > 1 THEN S ELSE 1

\* Prepare has created two sub-compactions for a job with three ranges and
\* room for three sub-compactions whose sizes give two output files.
C27_Witness ==
  /\ job_pc = "Prepared"
  /\ NumRanges(compaction) = 3
  /\ compaction.max_subcompactions = 3
  /\ ExpectedOutputFiles(compaction) = 2
  /\ Len(sub_compact_states) = 2

\* The version has no size estimate for any range of the job.
NoSizeEstimates ==
  /\ NumRanges(compaction) > 0
  /\ Len(compaction.approx_sizes) = NumRanges(compaction)
  /\ \A k \in DOMAIN compaction.approx_sizes : compaction.approx_sizes[k] = 0

\* C28: when every approximate size is 0, the planner emits no boundary and
\* Prepare creates exactly one sub-compaction, with unbounded start and end;
\* the job does not fail because of it.
C28_NoEstimatesGiveOneSlice ==
  /\ (Planned /\ NoSizeEstimates) =>
       /\ boundaries_ = <<>>
       /\ Len(sub_compact_states) = 1
       /\ sub_compact_states[1].start = nullptr
       /\ sub_compact_states[1].end = nullptr
       /\ sub_compact_states[1].status = "OK"
       /\ compact_status = "OK"
  /\ (job_pc = "Done" /\ NoSizeEstimates) => install_status = "OK"

\* A job with three ranges and room for three sub-compactions, without size
\* estimates, is installed: one output file holds all the records.
C28_Witness ==
  /\ Installed
  /\ NoSizeEstimates
  /\ NumRanges(compaction) = 3
  /\ compaction.max_subcompactions = 3
  /\ compaction.max_output_file_size = 2
  /\ boundaries_ = <<>>
  /\ Cardinality(lsm) = 1

\* C29: after Run the io status of the job is non-OK exactly when an I/O
\* failure occurred in a worker or in the directory sync: it is non-OK
\* whenever a worker ended with a non-OK io status, and a failure that is
\* not an I/O failure never makes it non-OK.
C29_IoStatusTracksIoFailures ==
  job_pc = "Ran" =>
    /\ (\E i \in DOMAIN sub_compact_states :
          sub_compact_states[i].io_status # "OK") => io_status_ # "OK"
    /\ io_status_ # "OK" =>
         \/ \E i \in DOMAIN sub_compact_states :
              sub_compact_states[i].io_status # "OK"
         \/ history.verify.sync = "failed"

\* The status a worker has when it starts to close its files: an error of
\* AddToOutput as it is, else ShutdownInProgress, else
\* ManualCompactionPaused, else ColumnFamilyDropped, else the status of the
\* input iterator and then that of the compaction iterator.
StatusByPrecedence(w) ==
  CASE w.loop_status # "OK" -> w.loop_status
    [] shutting_down -> "ShutdownInProgress"
    [] manual_compaction_canceled -> "ManualCompactionPaused"
    [] cfd_dropped -> "ColumnFamilyDropped"
    [] w.input_status # "OK" -> w.input_status
    [] OTHER -> w.c_iter_status

FailedSyncs ==
  {k \in 1..Len(history.dir_syncs) : history.dir_syncs[k].status # "OK"}

FilesToVerify == Len(FilesOutput(sub_compact_states, Len(sub_compact_states)))

\* C32: during verification every file index is claimed by at most one
\* verification thread; a thread that finds an unusable file claims no
\* further file while the others go on until every file is claimed; and
\* when no verification fails, every output file of every sub-compaction
\* has been verified exactly once when Run returns.
C32_EachFileVerifiedOnce ==
  (job_pc = "Ran" /\ history.verify.ran) =>
    LET claims == history.verify.claims
        failed == {claims[k].thread : k \in {j \in DOMAIN claims :
                                               claims[j].status # "OK"}}
    IN /\ \A k \in DOMAIN claims, j \in DOMAIN claims :
            claims[k].file_idx = claims[j].file_idx => k = j
       /\ \A k \in DOMAIN claims : claims[k].file_idx \in 1..FilesToVerify
       /\ \A k \in DOMAIN claims, j \in DOMAIN claims :
            (k < j /\ claims[k].status # "OK")
              => claims[j].thread # claims[k].thread
       /\ failed # Workers =>
            \A f \in 1..FilesToVerify :
              \E k \in DOMAIN claims : claims[k].file_idx = f
       /\ failed = {} =>
            \A f \in 1..FilesToVerify :
              Cardinality({k \in DOMAIN claims : claims[k].file_idx = f}) = 1

\* One thread stopped at the first file and the other verified the two
\* files that were left.
C32_Witness ==
  /\ job_pc = "Ran" /\ history.verify.ran
  /\ FilesToVerify = 3
  /\ \E t \in Workers, u \in Workers :
       /\ t # u
       /\ history.verify.claims =
            <<Claim(1, t, "Corruption"), Claim(2, u, "OK"), Claim(3, u, "OK")>>

\* C33: every output file that a worker opens gets a file number newly
\* taken from the version manager: no two opened files of the job, of one
\* worker or of two, have the same file number or the same file name, and
\* none has the number of an input file.
C33_FreshFileNumbers ==
  LET opened == {[worker |-> i, k |-> k] :
                   i \in Workers, k \in 1..(2 * MaxSeq + 2)}
      started == {o \in opened :
                    /\ o.k <= Len(sub_compact_states[o.worker].table_file_events)
                    /\ sub_compact_states[o.worker].table_file_events[o.k].event
                         = "started"}
      fname(o) == sub_compact_states[o.worker].table_file_events[o.k].fname
      files == {[worker |-> i, k |-> k] :
                  i \in Workers, k \in 1..MaxSeq}
      outs == {o \in files : o.k <= Len(sub_compact_states[o.worker].outputs)}
      num(o) == sub_compact_states[o.worker].outputs[o.k].num
  IN /\ \A a \in started, b \in started : fname(a) = fname(b) => a = b
     /\ \A a \in outs, b \in outs : num(a) = num(b) => a = b
     /\ \A a \in outs :
          /\ num(a) \notin InputNumbers
          /\ num(a) < next_file_number
          /\ \E b \in started : fname(b) = GetTableFileName(num(a))

\* Two workers have an output file open at the same time.
C33_Witness ==
  /\ job_pc = "Running"
  /\ \E i \in Workers, j \in Workers :
       /\ i # j
       /\ sub_compact_states[i].pc = "loop" /\ sub_compact_states[i].builder
       /\ sub_compact_states[j].pc = "loop" /\ sub_compact_states[j].builder

\* What the listeners got about sub-compaction i.
ListenerEvents(i) == sub_compact_states[i].listener_events

\* Whether the step delivered the event about sub-compaction i.
Delivered(i, event) ==
  /\ i \in DOMAIN sub_compact_states /\ i \in DOMAIN sub_compact_states'
  /\ sub_compact_states'[i].listener_events
       = Append(sub_compact_states[i].listener_events, event)

\* C34: OnSubcompactionCompleted is delivered for a sub-compaction only
\* after OnSubcompactionBegin was delivered for it; neither is delivered
\* without listeners or while the database is shutting down, and Begin is
\* not delivered for a manual compaction that is already cancelled.
C34_CompletedOnlyAfterBegin ==
  /\ [](\A i \in Workers :
          /\ ListenerEvents(i) \in
               {<<>>, <<"OnSubcompactionBegin">>,
                <<"OnSubcompactionBegin", "OnSubcompactionCompleted">>}
          /\ ~compaction.listeners => ListenerEvents(i) = <<>>)
  /\ [][\A i \in 1..MaxSubcompactions :
          /\ Delivered(i, "OnSubcompactionBegin") =>
               /\ compaction.listeners /\ ~shutting_down
               /\ ~(compaction.is_manual_compaction
                      /\ manual_compaction_canceled)
          /\ Delivered(i, "OnSubcompactionCompleted") =>
               compaction.listeners /\ ~shutting_down]_vars

\* A manual compaction that was cancelled before the worker started: the
\* worker has ended, the database is not shutting down, and the listeners
\* got nothing about the sub-compaction.
C34_Witness ==
  /\ job_pc = "Running"
  /\ compaction.listeners /\ compaction.is_manual_compaction
  /\ manual_compaction_canceled /\ ~shutting_down
  /\ \E i \in Workers, j \in Workers :
       /\ sub_compact_states[i].pc = "done"
       /\ ListenerEvents(i) = <<>>
       /\ ListenerEvents(j) =
            <<"OnSubcompactionBegin", "OnSubcompactionCompleted">>

\* C36: when the file manager reports that the space limit is reached
\* after an output file was finished and kept, the finish step returns
\* SpaceLimit whatever its status was, and the error handler of the
\* database is called with that status and the reason Compaction; the job
\* calls the error handler in no other case.
C36_SpaceLimitSetsBGError ==
  \A i \in Workers :
    LET w == sub_compact_states[i]
    IN /\ \A r \in w.finish_returns :
            /\ r.space_reached =>
                 /\ r.returned = "SpaceLimit"
                 /\ BGError("SpaceLimit", "kCompaction") \in w.bg_errors
            /\ ~r.space_reached => r.returned # "SpaceLimit"
       /\ w.bg_errors \subseteq {BGError("SpaceLimit", "kCompaction")}
       /\ w.bg_errors # {} => \E r \in w.finish_returns : r.space_reached

\* The space limit was reported when a worker finished its file after the
\* job was cancelled, while another worker failed to close its file.
C36_Witness ==
  \E i \in Workers, j \in Workers :
    /\ FinishReturn("ManualCompactionPaused", TRUE, "SpaceLimit")
         \in sub_compact_states[i].finish_returns
    /\ sub_compact_states[i].bg_errors # {}
    /\ FinishReturn("OK", FALSE, "IOError")
         \in sub_compact_states[j].finish_returns
    /\ sub_compact_states[j].bg_errors = {}

\* Whether the job never asks about the overlap with the grandparent files.
NoOverlapCut ==
  compaction.output_level = 0 \/ compaction.supports_per_key_placement

\* C37: when the output level is 0 or the compaction supports per-key
\* placement, a worker never marks its output as pending close because of
\* the projected overlap with the next level: an output becomes pending
\* close only when it has reached the size limit, and every output file
\* that was cut has the size of the limit.
C37_NoOverlapCut ==
  /\ [][NoOverlapCut =>
          \A i \in 1..MaxSubcompactions :
            (/\ i \in DOMAIN sub_compact_states
             /\ i \in DOMAIN sub_compact_states'
             /\ ~sub_compact_states[i].pending_close
             /\ sub_compact_states'[i].pending_close)
              => LET outs == sub_compact_states'[i].outputs
                 IN /\ compaction.output_level # 0
                    /\ Len(outs) > 0
                    /\ Len(outs[Len(outs)].entries)
                         >= compaction.max_output_file_size]_vars
  /\ [](NoOverlapCut =>
          \A i \in Workers :
            \A k \in 1..(Len(sub_compact_states[i].outputs) - 1) :
              Len(sub_compact_states[i].outputs[k].entries)
                >= compaction.max_output_file_size)

\* A job to level 0 with a size limit of one record whose worker wrote a
\* file of three records.
LevelZeroFileNotCut ==
  /\ compaction.output_level = 0
  /\ compaction.max_output_file_size = 1
  /\ \E i \in Workers :
       /\ Len(sub_compact_states[i].outputs) = 1
       /\ Len(sub_compact_states[i].outputs[1].entries) = 3

\* A job with per-key placement and a size limit of two records whose
\* worker has cut its first file at the limit.
C37_Witness ==
  /\ compaction.supports_per_key_placement
  /\ compaction.max_output_file_size = 2
  /\ \E i \in Workers :
       /\ Len(sub_compact_states[i].outputs) = 2
       /\ Len(sub_compact_states[i].outputs[1].entries) = 2

\* The jobs whose edit advances a compaction cursor.
AdvancesCursor ==
  /\ compaction.compaction_reason = "kLevelMaxLevelSize"
  /\ compaction.compaction_pri = "kRoundRobin"
  /\ compaction.start_level > 0

\* C38: the version edit that Install builds holds a cursor advance, for
\* the start level, exactly when the compaction reason is
\* level-max-level-size, the compaction priority is round-robin and the
\* start level is above 0; in every other case the edit holds no cursor
\* change.
C38_CursorAdvance ==
  /\ log_and_apply_calls = 1 =>
       edit.compact_cursors =
         IF AdvancesCursor
         THEN {[level |-> compaction.start_level,
                cursor |-> "NextCompactCursor"]}
         ELSE {}
  /\ log_and_apply_calls = 0 => edit.compact_cursors = {}

\* An installed round-robin job from level 1 whose edit advances the cursor
\* of level 1.
C38_Witness ==
  /\ job_pc = "Done" /\ log_and_apply_calls = 1
  /\ AdvancesCursor
  /\ \E cur \in edit.compact_cursors : cur.level = 1

\* The sub-compactions with a bounded start or a bounded end.
BoundedSubcompactions ==
  {i \in Workers : \/ sub_compact_states[i].start # nullptr
                   \/ sub_compact_states[i].end # nullptr}

\* C39: a sub-compaction has a bounded start or end only under a comparator
\* whose timestamp size is 0; a job whose comparator uses user timestamps
\* runs as one sub-compaction with unbounded start and end.
C39_NoSubcompactionsWithTimestamps ==
  /\ BoundedSubcompactions # {} => compaction.timestamp_size = 0
  /\ compaction.timestamp_size > 0 =>
       /\ boundaries_ = <<>>
       /\ job_pc \in {"Prepared", "Running", "Ran"} =>
            Len(sub_compact_states) = 1
       /\ \A i \in Workers : /\ i = 1
                             /\ sub_compact_states[i].start = nullptr
                             /\ sub_compact_states[i].end = nullptr

\* A timestamp-free job has run in several sub-compactions.
SlicedWithoutTimestamps ==
  /\ job_pc = "Ran" /\ compaction.timestamp_size = 0
  /\ BoundedSubcompactions # {}

\* A job with user timestamps that may use several sub-compactions, over
\* inputs that the planner would slice, has run as one sub-compaction.
C39_Witness ==
  /\ job_pc = "Ran" /\ compact_status = "OK"
  /\ compaction.timestamp_size > 0
  /\ compaction.max_subcompactions > 1
  /\ GenSubcompactionBoundaries(compaction, compaction.approx_sizes) # <<>>
  /\ Len(sub_compact_states) = 1
  /\ sub_compact_states[1].pc = "done"

\* C40: the write-hint planning of a finished output file is advisory:
\* whatever it computes, every FinishCompactionOutputFile returns as it does
\* without the planning, and every output file keeps the hint that was set
\* when it was opened.
C40_PlanningIsAdvisory ==
  \A i \in Workers :
    LET w == sub_compact_states[i]
    IN /\ ~w.crashed
       /\ \A s \in w.finish_calls :
            \E r \in w.finish_returns : r.input_status = s
       /\ \A h \in w.write_hints : h.hint = WriteHint(compaction)

\* A planning that computed a priority index above 0 has been logged.
PlanningLogged ==
  \E i \in Workers :
    \E k \in DOMAIN sub_compact_states[i].write_hint_log :
      LET l == sub_compact_states[i].write_hint_log[k]
      IN l.line = "filepriority" /\ l.priority_index > 0

\* The notifications of worker i about table files.
EventsOf(i) == sub_compact_states[i].table_file_events

\* C35: every table-file-creation-started notification of a worker is
\* followed by exactly one table-file-creation-finished notification before
\* the worker starts another file and before it ends, whether the file
\* could not be created, its unique id could not be generated, it was
\* finished, it was dropped as empty, or the worker ended with an error.
C35_StartedThenFinished ==
  \A i \in Workers :
    /\ \A k \in 1..Len(EventsOf(i)) :
         EventsOf(i)[k].event = IF k % 2 = 1 THEN "started" ELSE "finished"
    /\ sub_compact_states[i].pc = "done" => Len(EventsOf(i)) % 2 = 0
====
